---- MODULE Spec2Model ----
(***************************************************************************)
(* Verification model of the secure file-access layer of Gemini-mcp:       *)
(*   src/src/utils/security.ts      (validatePath and its four rules)      *)
(*   src/unnamed/part_001           (file-reader: readFile, readFiles,     *)
(*                                   readDirectory)                        *)
(*                                                                         *)
(* A string is a sequence of one-character strings, so that split,         *)
(* startsWith, resolve, relative and glob matching are computed character  *)
(* by character and segment by segment, the way the code and Node's POSIX  *)
(* path module compute them.                                               *)
(***************************************************************************)
EXTENDS Integers, Sequences, FiniteSets, TLC

\* ------------------------------------------------------------------------
\* Strings
\* ------------------------------------------------------------------------

SLASH == "/"
BACKSLASH == "\\"
DOT == "."
STAR == "*"

DOTDOT == <<DOT, DOT>>

LowerMap ==
  [A |-> "a", B |-> "b", C |-> "c", D |-> "d", E |-> "e", F |-> "f", G |-> "g",
   H |-> "h", I |-> "i", J |-> "j", K |-> "k", L |-> "l", M |-> "m", N |-> "n",
   O |-> "o", P |-> "p", Q |-> "q", R |-> "r", S |-> "s", T |-> "t", U |-> "u",
   V |-> "v", W |-> "w", X |-> "x", Y |-> "y", Z |-> "z"]

\* String.prototype.toLowerCase, one character
LowerChar(c) == IF c \in DOMAIN LowerMap THEN LowerMap[c] ELSE c

\* String.prototype.toLowerCase
ToLowerCase(s) == [i \in 1..Len(s) |-> LowerChar(s[i])]

\* String.prototype.startsWith
StartsWith(s, prefix) ==
  /\ Len(s) >= Len(prefix)
  /\ \A i \in 1..Len(prefix) : s[i] = prefix[i]

\* String.prototype.replace(/\\/g, '/')
ReplaceBackslashes(s) == [i \in 1..Len(s) |-> IF s[i] = BACKSLASH THEN SLASH ELSE s[i]]

RECURSIVE SplitFrom(_, _, _, _, _)
\* the segments of s from position start on, i being the scanning position
SplitFrom(s, seps, i, start, acc) ==
  IF i > Len(s) THEN Append(acc, SubSeq(s, start, i - 1))
  ELSE IF s[i] \in seps
       THEN SplitFrom(s, seps, i + 1, i + 1, Append(acc, SubSeq(s, start, i - 1)))
  ELSE SplitFrom(s, seps, i + 1, start, acc)

\* String.prototype.split on a set of one-character separators: "a//b" gives
\* "a", "", "b"; a string without separator, "" too, gives one segment
Split(s, seps) ==
  IF \A i \in 1..Len(s) : s[i] \notin seps THEN <<s>>
  ELSE SplitFrom(s, seps, 1, 1, <<>>)

RECURSIVE Join(_, _)
\* Array.prototype.join
Join(segs, sep) ==
  IF Len(segs) = 0 THEN <<>>
  ELSE IF Len(segs) = 1 THEN segs[1]
  ELSE segs[1] \o <<sep>> \o Join(Tail(segs), sep)

\* ------------------------------------------------------------------------
\* Node's path module, POSIX flavour
\* ------------------------------------------------------------------------

\* path.isAbsolute
IsAbsolute(p) == Len(p) > 0 /\ p[1] = SLASH

RECURSIVE NormalizeSegs(_, _)
\* normalizeString of an absolute path: "" and "." segments vanish, ".." pops
\* (and is dropped at the root)
NormalizeSegs(segs, acc) ==
  IF Len(segs) = 0 THEN acc
  ELSE IF segs[1] = <<>> \/ segs[1] = <<DOT>> THEN NormalizeSegs(Tail(segs), acc)
  ELSE IF segs[1] = DOTDOT
       THEN NormalizeSegs(Tail(segs),
                          IF Len(acc) = 0 THEN acc ELSE SubSeq(acc, 1, Len(acc) - 1))
  ELSE NormalizeSegs(Tail(segs), Append(acc, segs[1]))

\* the segments of the absolute path that path.resolve(base, p) returns;
\* base is absolute
ResolveSegs(base, p) ==
  IF IsAbsolute(p) THEN NormalizeSegs(Split(p, {SLASH}), <<>>)
  ELSE NormalizeSegs(Split(base, {SLASH}) \o Split(p, {SLASH}), <<>>)

\* path.resolve(base, p)
PathResolve(base, p) == <<SLASH>> \o Join(ResolveSegs(base, p), SLASH)

RECURSIVE CommonPrefixLen(_, _)
CommonPrefixLen(a, b) ==
  IF Len(a) = 0 \/ Len(b) = 0 \/ a[1] # b[1] THEN 0
  ELSE 1 + CommonPrefixLen(Tail(a), Tail(b))

\* path.relative(from, to), both already absolute and normalized
PathRelative(from, to) ==
  LET f == ResolveSegs(<<SLASH>>, from)
      t == ResolveSegs(<<SLASH>>, to)
      c == CommonPrefixLen(f, t)
      ups == [i \in 1..(Len(f) - c) |-> DOTDOT]
  IN Join(ups \o SubSeq(t, c + 1, Len(t)), SLASH)

\* path.basename: the last segment, trailing slashes ignored
Basename(p) ==
  LET segs == SelectSeq(Split(p, {SLASH}), LAMBDA s : s # <<>>)
  IN IF Len(segs) = 0 THEN <<>> ELSE segs[Len(segs)]

\* the 1-based index of the last "." of s, 0 when there is none
LastDot(s) ==
  LET dots == {i \in 1..Len(s) : s[i] = DOT}
  IN IF dots = {} THEN 0 ELSE CHOOSE i \in dots : \A j \in dots : j <= i

\* path.extname: from the last "." of the basename; "" when there is none,
\* when it is the first character, or when the basename is ".."
Extname(p) ==
  LET b == Basename(p)
      i == LastDot(b)
  IN IF i <= 1 \/ b = DOTDOT THEN <<>> ELSE SubSeq(b, i, Len(b))

\* ------------------------------------------------------------------------
\* Glob matching (micromatch / picomatch, as isSensitiveFile and fast-glob
\* use it), on "/"-separated segments
\* ------------------------------------------------------------------------

GLOBSTAR == <<STAR, STAR>>

RECURSIVE CharsMatchFrom(_, _, _, _, _)
\* pat from position i on against s from position j on
CharsMatchFrom(pat, i, s, j, nocase) ==
  IF i > Len(pat) THEN j > Len(s)
  ELSE IF pat[i] = STAR
       THEN \/ CharsMatchFrom(pat, i + 1, s, j, nocase)
            \/ j <= Len(s) /\ CharsMatchFrom(pat, i, s, j + 1, nocase)
  ELSE /\ j <= Len(s)
       /\ IF nocase THEN LowerChar(pat[i]) = LowerChar(s[j]) ELSE pat[i] = s[j]
       /\ CharsMatchFrom(pat, i + 1, s, j + 1, nocase)

\* one pattern segment against one path segment: "*" is any run of characters
\* of the segment, every other character matches itself (or, with nocase, its
\* other case)
CharsMatch(pat, s, nocase) == CharsMatchFrom(pat, 1, s, 1, nocase)

\* a segment never matches a wildcard when it is empty, nor, without the dot
\* option, a leading "." that the pattern does not spell out
SegMatch(pat, s, dot, nocase) ==
  /\ CharsMatch(pat, s, nocase)
  /\ (\E i \in 1..Len(pat) : pat[i] = STAR) => Len(s) > 0
  /\ (~dot /\ Len(s) > 0 /\ s[1] = DOT) => (Len(pat) > 0 /\ pat[1] = DOT)

\* what a "**" may swallow: any segment but "." and "..", and no dot-segment
\* without the dot option
GlobstarTakes(s, dot) ==
  /\ s # <<DOT>>
  /\ s # DOTDOT
  /\ dot \/ Len(s) = 0 \/ s[1] # DOT

RECURSIVE SegsMatch(_, _, _, _)
SegsMatch(pats, segs, dot, nocase) ==
  IF Len(pats) = 0 THEN Len(segs) = 0
  ELSE IF pats[1] = GLOBSTAR
       THEN \/ SegsMatch(Tail(pats), segs, dot, nocase)
            \/ /\ Len(segs) > 0
               /\ GlobstarTakes(segs[1], dot)
               /\ SegsMatch(pats, Tail(segs), dot, nocase)
  ELSE /\ Len(segs) > 0
       /\ SegMatch(pats[1], segs[1], dot, nocase)
       /\ SegsMatch(Tail(pats), Tail(segs), dot, nocase)

\* picomatch: one glob against the "/"-separated segments of a string
GlobMatch(pattern, segs, dot, nocase) ==
  SegsMatch(Split(pattern, {SLASH}), segs, dot, nocase)

\* micromatch.isMatch(str, patterns, {dot, nocase}): some pattern of the list
\* matches; an empty list matches nothing, and nothing matches the empty
\* string
IsMatch(str, patterns, dot, nocase) ==
  LET segs == Split(str, {SLASH})
  IN /\ Len(str) > 0
     /\ \E i \in 1..Len(patterns) : GlobMatch(patterns[i], segs, dot, nocase)

\* ------------------------------------------------------------------------
\* security.ts
\* ------------------------------------------------------------------------

DEFAULT_SENSITIVE_PATTERNS ==
  << <<".", "e", "n", "v">>,   \* .env
     <<".", "e", "n", "v", ".", "*">>,   \* .env.*
     <<".", "e", "n", "v", ".", "l", "o", "c", "a", "l">>,   \* .env.local
     <<".", "e", "n", "v", ".", "d", "e", "v", "e", "l", "o", "p", "m", "e", "n", "t">>,   \* .env.development
     <<".", "e", "n", "v", ".", "p", "r", "o", "d", "u", "c", "t", "i", "o", "n">>,   \* .env.production
     <<"*", "*", "/", ".", "e", "n", "v">>,   \* **/.env
     <<"*", "*", "/", ".", "e", "n", "v", ".", "*">>,   \* **/.env.*
     <<".", "s", "s", "h", "/", "*", "*">>,   \* .ssh/**
     <<"*", "*", "/", ".", "s", "s", "h", "/", "*", "*">>,   \* **/.ssh/**
     <<"*", ".", "p", "e", "m">>,   \* *.pem
     <<"*", ".", "k", "e", "y">>,   \* *.key
     <<"*", ".", "p", "f", "x">>,   \* *.pfx
     <<"*", ".", "p", "1", "2">>,   \* *.p12
     <<"*", "*", "/", "i", "d", "_", "r", "s", "a">>,   \* **/id_rsa
     <<"*", "*", "/", "i", "d", "_", "r", "s", "a", ".", "*">>,   \* **/id_rsa.*
     <<"*", "*", "/", "i", "d", "_", "e", "d", "2", "5", "5", "1", "9">>,   \* **/id_ed25519
     <<"*", "*", "/", "i", "d", "_", "e", "d", "2", "5", "5", "1", "9", ".", "*">>,   \* **/id_ed25519.*
     <<"*", "*", "/", "i", "d", "_", "d", "s", "a">>,   \* **/id_dsa
     <<"*", "*", "/", "i", "d", "_", "d", "s", "a", ".", "*">>,   \* **/id_dsa.*
     <<"*", "*", "/", "c", "r", "e", "d", "e", "n", "t", "i", "a", "l", "s", "*">>,   \* **/credentials*
     <<"*", "*", "/", "s", "e", "c", "r", "e", "t", "s", "*">>,   \* **/secrets*
     <<"*", "*", "/", "s", "e", "c", "r", "e", "t", ".", "*">>,   \* **/secret.*
     <<"*", "*", "/", "*", "p", "a", "s", "s", "w", "o", "r", "d", "*">>,   \* **/*password*
     <<"*", "*", "/", "*", "t", "o", "k", "e", "n", "*">>,   \* **/*token*
     <<"*", "*", "/", ".", "g", "i", "t", "/", "c", "o", "n", "f", "i", "g">>,   \* **/.git/config
     <<"*", "*", "/", ".", "g", "i", "t", "c", "o", "n", "f", "i", "g">>,   \* **/.gitconfig
     <<"*", ".", "s", "q", "l", "i", "t", "e">>,   \* *.sqlite
     <<"*", ".", "s", "q", "l", "i", "t", "e", "3">>,   \* *.sqlite3
     <<"*", ".", "d", "b">>,   \* *.db
     <<"*", "*", "/", ".", "b", "a", "s", "h", "_", "h", "i", "s", "t", "o", "r", "y">>,   \* **/.bash_history
     <<"*", "*", "/", ".", "z", "s", "h", "_", "h", "i", "s", "t", "o", "r", "y">>,   \* **/.zsh_history
     <<"*", "*", "/", ".", "n", "o", "d", "e", "_", "r", "e", "p", "l", "_", "h", "i", "s", "t", "o", "r", "y">>,   \* **/.node_repl_history
     <<"*", "*", "/", ".", "a", "w", "s", "/", "*", "*">>,   \* **/.aws/**
     <<"*", "*", "/", ".", "a", "z", "u", "r", "e", "/", "*", "*">>,   \* **/.azure/**
     <<"*", "*", "/", ".", "g", "c", "l", "o", "u", "d", "/", "*", "*">>,   \* **/.gcloud/**
     <<"*", "*", "/", "d", "o", "c", "k", "e", "r", "-", "c", "o", "m", "p", "o", "s", "e", "*", ".", "y", "m", "l">>,   \* **/docker-compose*.yml
     <<"*", "*", "/", "d", "o", "c", "k", "e", "r", "-", "c", "o", "m", "p", "o", "s", "e", "*", ".", "y", "a", "m", "l">> >>   \* **/docker-compose*.yaml

DEFAULT_MAX_FILE_SIZE == 1048576

DEFAULT_MAX_FILES == 500

ConfigFields == {"allowedDirectories", "sensitivePatterns", "maxFileSize",
                 "maxFiles", "allowSymlinks"}

\* A SecurityConfig: "has" names the properties the object carries; the
\* value of a property it does not carry is never read.
DEFAULT_SECURITY_CONFIG ==
  [has |-> ConfigFields,
   allowedDirectories |-> <<>>,
   sensitivePatterns |-> DEFAULT_SENSITIVE_PATTERNS,
   maxFileSize |-> DEFAULT_MAX_FILE_SIZE,
   maxFiles |-> DEFAULT_MAX_FILES,
   allowSymlinks |-> FALSE]

\* { ...defaults, ...config }: every property the config carries replaces
\* the default's
Spread(defaults, config) ==
  [has |-> defaults.has \cup config.has,
   allowedDirectories |->
     IF "allowedDirectories" \in config.has THEN config.allowedDirectories
     ELSE defaults.allowedDirectories,
   sensitivePatterns |->
     IF "sensitivePatterns" \in config.has THEN config.sensitivePatterns
     ELSE defaults.sensitivePatterns,
   maxFileSize |->
     IF "maxFileSize" \in config.has THEN config.maxFileSize
     ELSE defaults.maxFileSize,
   maxFiles |->
     IF "maxFiles" \in config.has THEN config.maxFiles ELSE defaults.maxFiles,
   allowSymlinks |->
     IF "allowSymlinks" \in config.has THEN config.allowSymlinks
     ELSE defaults.allowSymlinks]

\* mergeSecurityConfig: the spread, with the caller's patterns appended to
\* the default ones
mergeSecurityConfig(userConfig) ==
  [Spread(DEFAULT_SECURITY_CONFIG, userConfig) EXCEPT
     !.sensitivePatterns =
        DEFAULT_SENSITIVE_PATTERNS \o
          (IF "sensitivePatterns" \in userConfig.has
           THEN userConfig.sensitivePatterns ELSE <<>>)]

\* the config validatePath works with (line 333)
MergedConfig(config) == Spread(DEFAULT_SECURITY_CONFIG, config)

\* hasPathTraversal without its scan of the raw segments: a path that leaves
\* base and comes back passes. C8 tells the two apart
hasPathTraversal_ResolvedOnly(inputPath, base) ==
  LET resolvedPath == PathResolve(base, inputPath)
      relativePath == PathRelative(base, resolvedPath)
  IN StartsWith(relativePath, DOTDOT) \/ IsAbsolute(relativePath)

\* hasPathTraversal(inputPath, basePath), base being the resolved basePath
\* or process.cwd()
hasPathTraversal(inputPath, base) ==
  LET resolvedPath == PathResolve(base, inputPath)
      relativePath == PathRelative(base, resolvedPath)
      segments == Split(inputPath, {SLASH, BACKSLASH})
  IN \/ StartsWith(relativePath, DOTDOT)
     \/ IsAbsolute(relativePath)
     \/ \E i \in 1..Len(segments) : segments[i] = DOTDOT

\* an isSensitiveFile without the additional filename check; C23 tells the
\* two apart
isSensitiveFile_PathOnly(filePath, patterns) ==
  IsMatch(ReplaceBackslashes(filePath), patterns, TRUE, TRUE)

isSensitiveFile(filePath, patterns) ==
  LET normalizedPath == ReplaceBackslashes(filePath)
      fileName == Basename(normalizedPath)
  IN \/ IsMatch(normalizedPath, patterns, TRUE, TRUE)
     \/ IsMatch(fileName, patterns, TRUE, TRUE)

\* isWithinAllowedDirectory comparing the two absolute paths as strings, the
\* comparison C5 excludes
isWithinAllowedDirectory_StringPrefix(filePath, allowedDirs, wd) ==
  IF Len(allowedDirs) = 0 THEN TRUE
  ELSE \E i \in 1..Len(allowedDirs) :
         StartsWith(PathResolve(wd, filePath), PathResolve(wd, allowedDirs[i]))

\* isWithinAllowedDirectory(filePath, allowedDirs) in a process whose
\* working directory is wd
isWithinAllowedDirectory(filePath, allowedDirs, wd) ==
  IF Len(allowedDirs) = 0 THEN TRUE
  ELSE LET absoluteFilePath == PathResolve(wd, filePath)
       IN \E i \in 1..Len(allowedDirs) :
            LET absoluteDir == PathResolve(wd, allowedDirs[i])
                relativePath == PathRelative(absoluteDir, absoluteFilePath)
            IN ~StartsWith(relativePath, DOTDOT) /\ ~IsAbsolute(relativePath)

\* the three rules with the sensitive-pattern rule ahead of the traversal
\* rule, the order C3 excludes
StaticRules_SensitiveFirst(inputPath, config, wd) ==
  LET mergedConfig == MergedConfig(config)
  IN IF isSensitiveFile(inputPath, mergedConfig.sensitivePatterns) THEN "SENSITIVE_FILE"
     ELSE IF hasPathTraversal(inputPath, wd) THEN "PATH_TRAVERSAL"
     ELSE IF ~isWithinAllowedDirectory(inputPath, mergedConfig.allowedDirectories, wd)
          THEN "ACCESS_DENIED"
     ELSE "OK"

\* validatePath up to its first await: the three rules that read no file
\* system state, in the order of the code; "OK" when none throws
StaticRules(inputPath, config, wd) ==
  LET mergedConfig == MergedConfig(config)
  IN IF hasPathTraversal(inputPath, wd) THEN "PATH_TRAVERSAL"
     ELSE IF isSensitiveFile(inputPath, mergedConfig.sensitivePatterns)
          THEN "SENSITIVE_FILE"
     ELSE IF ~isWithinAllowedDirectory(inputPath, mergedConfig.allowedDirectories, wd)
          THEN "ACCESS_DENIED"
     ELSE "OK"


\* ------------------------------------------------------------------------
\* file-reader (part_001): constants and pure helpers
\* ------------------------------------------------------------------------

DEFAULT_EXCLUDE_PATTERNS ==
  << <<"n", "o", "d", "e", "_", "m", "o", "d", "u", "l", "e", "s", "/", "*", "*">>,   \* node_modules/**
     <<"v", "e", "n", "d", "o", "r", "/", "*", "*">>,   \* vendor/**
     <<"b", "o", "w", "e", "r", "_", "c", "o", "m", "p", "o", "n", "e", "n", "t", "s", "/", "*", "*">>,   \* bower_components/**
     <<"d", "i", "s", "t", "/", "*", "*">>,   \* dist/**
     <<"b", "u", "i", "l", "d", "/", "*", "*">>,   \* build/**
     <<"o", "u", "t", "/", "*", "*">>,   \* out/**
     <<".", "n", "e", "x", "t", "/", "*", "*">>,   \* .next/**
     <<".", "n", "u", "x", "t", "/", "*", "*">>,   \* .nuxt/**
     <<".", "o", "u", "t", "p", "u", "t", "/", "*", "*">>,   \* .output/**
     <<"c", "o", "v", "e", "r", "a", "g", "e", "/", "*", "*">>,   \* coverage/**
     <<".", "n", "y", "c", "_", "o", "u", "t", "p", "u", "t", "/", "*", "*">>,   \* .nyc_output/**
     <<".", "c", "a", "c", "h", "e", "/", "*", "*">>,   \* .cache/**
     <<".", "p", "a", "r", "c", "e", "l", "-", "c", "a", "c", "h", "e", "/", "*", "*">>,   \* .parcel-cache/**
     <<".", "t", "u", "r", "b", "o", "/", "*", "*">>,   \* .turbo/**
     <<"*", ".", "l", "o", "c", "k">>,   \* *.lock
     <<"p", "a", "c", "k", "a", "g", "e", "-", "l", "o", "c", "k", ".", "j", "s", "o", "n">>,   \* package-lock.json
     <<"y", "a", "r", "n", ".", "l", "o", "c", "k">>,   \* yarn.lock
     <<"p", "n", "p", "m", "-", "l", "o", "c", "k", ".", "y", "a", "m", "l">>,   \* pnpm-lock.yaml
     <<"*", ".", "m", "i", "n", ".", "j", "s">>,   \* *.min.js
     <<"*", ".", "m", "i", "n", ".", "c", "s", "s">>,   \* *.min.css
     <<"*", ".", "b", "u", "n", "d", "l", "e", ".", "j", "s">>,   \* *.bundle.js
     <<"*", ".", "c", "h", "u", "n", "k", ".", "j", "s">>,   \* *.chunk.js
     <<"*", ".", "m", "a", "p">>,   \* *.map
     <<"*", ".", "j", "s", ".", "m", "a", "p">>,   \* *.js.map
     <<"*", ".", "c", "s", "s", ".", "m", "a", "p">>,   \* *.css.map
     <<".", "g", "i", "t", "/", "*", "*">>,   \* .git/**
     <<".", "s", "v", "n", "/", "*", "*">>,   \* .svn/**
     <<".", "h", "g", "/", "*", "*">>,   \* .hg/**
     <<".", "i", "d", "e", "a", "/", "*", "*">>,   \* .idea/**
     <<".", "v", "s", "c", "o", "d", "e", "/", "*", "*">>,   \* .vscode/**
     <<"*", ".", "c", "o", "d", "e", "-", "w", "o", "r", "k", "s", "p", "a", "c", "e">>,   \* *.code-workspace
     <<"*", ".", "l", "o", "g">>,   \* *.log
     <<"l", "o", "g", "s", "/", "*", "*">>,   \* logs/**
     <<"t", "m", "p", "/", "*", "*">>,   \* tmp/**
     <<"t", "e", "m", "p", "/", "*", "*">>,   \* temp/**
     <<".", "t", "m", "p", "/", "*", "*">> >>   \* .tmp/**

BINARY_EXTENSIONS ==
  << <<".", "p", "n", "g">>, <<".", "j", "p", "g">>, <<".", "j", "p", "e", "g">>,
     <<".", "g", "i", "f">>, <<".", "w", "e", "b", "p">>, <<".", "i", "c", "o">>,
     <<".", "b", "m", "p">>, <<".", "s", "v", "g">>, <<".", "t", "i", "f", "f">>,
     <<".", "a", "v", "i", "f">>, <<".", "m", "p", "3">>, <<".", "w", "a", "v">>,
     <<".", "o", "g", "g">>, <<".", "f", "l", "a", "c">>, <<".", "a", "a", "c">>,
     <<".", "m", "4", "a">>, <<".", "w", "m", "a">>, <<".", "m", "p", "4">>,
     <<".", "a", "v", "i">>, <<".", "m", "o", "v">>, <<".", "m", "k", "v">>,
     <<".", "w", "m", "v">>, <<".", "f", "l", "v">>, <<".", "w", "e", "b", "m">>,
     <<".", "m", "4", "v">>, <<".", "z", "i", "p">>, <<".", "t", "a", "r">>,
     <<".", "g", "z">>, <<".", "r", "a", "r">>, <<".", "7", "z">>,
     <<".", "b", "z", "2">>, <<".", "x", "z">>, <<".", "e", "x", "e">>,
     <<".", "d", "l", "l">>, <<".", "s", "o">>, <<".", "d", "y", "l", "i", "b">>,
     <<".", "b", "i", "n">>, <<".", "a", "p", "p">>, <<".", "m", "s", "i">>,
     <<".", "p", "d", "f">>, <<".", "d", "o", "c">>, <<".", "d", "o", "c", "x">>,
     <<".", "x", "l", "s">>, <<".", "x", "l", "s", "x">>, <<".", "p", "p", "t">>,
     <<".", "p", "p", "t", "x">>, <<".", "o", "d", "t">>, <<".", "o", "d", "s">>,
     <<".", "o", "d", "p">>, <<".", "w", "o", "f", "f">>, <<".", "w", "o", "f", "f", "2">>,
     <<".", "t", "t", "f">>, <<".", "e", "o", "t">>, <<".", "o", "t", "f">>,
     <<".", "d", "b">>, <<".", "s", "q", "l", "i", "t", "e">>, <<".", "s", "q", "l", "i", "t", "e", "3">>,
     <<".", "m", "d", "b">>, <<".", "c", "l", "a", "s", "s">>, <<".", "j", "a", "r">>,
     <<".", "p", "y", "c">>, <<".", "p", "y", "o">>, <<".", "o">>,
     <<".", "o", "b", "j">>, <<".", "a">>, <<".", "l", "i", "b">>,
     <<".", "i", "c", "o">>, <<".", "i", "c", "n", "s">>, <<".", "c", "u", "r">> >>

\* Array.prototype.includes
Includes(list, x) == \E i \in 1..Len(list) : list[i] = x

\* an isBinaryFile that compares the extension as it is written; C14 tells
\* the two apart
isBinaryFile_CaseSensitive(filePath) == Includes(BINARY_EXTENSIONS, Extname(filePath))

isBinaryFile(filePath) == Includes(BINARY_EXTENSIONS, ToLowerCase(Extname(filePath)))

RECURSIVE NormalizeRelSegs(_, _)
\* normalizeString of a relative path: ".." pops a name, and stays when there
\* is none to pop
NormalizeRelSegs(segs, acc) ==
  IF Len(segs) = 0 THEN acc
  ELSE IF segs[1] = <<>> \/ segs[1] = <<DOT>> THEN NormalizeRelSegs(Tail(segs), acc)
  ELSE IF segs[1] = DOTDOT /\ Len(acc) > 0 /\ acc[Len(acc)] # DOTDOT
       THEN NormalizeRelSegs(Tail(segs), SubSeq(acc, 1, Len(acc) - 1))
  ELSE NormalizeRelSegs(Tail(segs), Append(acc, segs[1]))

\* path.join(a, b): the two joined by "/", then normalized
PathJoin(a, b) ==
  LET joined == IF Len(a) = 0 THEN b ELSE IF Len(b) = 0 THEN a ELSE a \o <<SLASH>> \o b
      rel == Join(NormalizeRelSegs(Split(joined, {SLASH}), <<>>), SLASH)
  IN IF IsAbsolute(joined)
     THEN <<SLASH>> \o Join(NormalizeSegs(Split(joined, {SLASH}), <<>>), SLASH)
     ELSE IF Len(rel) = 0 THEN <<DOT>> ELSE rel

\* ------------------------------------------------------------------------
\* The inputs the model draws from
\* ------------------------------------------------------------------------

CWD_WWW == <<"/", "w", "w", "w">>   \* /www

CWD_HOME == <<"/", "h", "o", "m", "e">>   \* /home

P_SRC_A == <<"s", "r", "c", "/", "a", ".", "t", "s">>   \* src/a.ts

P_DOT_SRC_A == <<".", "/", "s", "r", "c", "/", "a", ".", "t", "s">>   \* ./src/a.ts

P_SRC_B == <<"s", "r", "c", "/", "b", ".", "t", "s">>   \* src/b.ts

P_ABS_SRC_A == <<"/", "w", "w", "w", "/", "s", "r", "c", "/", "a", ".", "t", "s">>   \* /www/src/a.ts

P_ABS_HOME_F == <<"/", "h", "o", "m", "e", "/", "f", ".", "t", "s">>   \* /home/f.ts

P_UP_HOME_F == <<".", ".", "/", "h", "o", "m", "e", "/", "f", ".", "t", "s">>   \* ../home/f.ts

P_SRC_UP_UP_HOME_F == <<".", "/", "s", "r", "c", "/", ".", ".", "/", ".", ".", "/", "h", "o", "m", "e", "/", "f", ".", "t", "s">>   \* ./src/../../home/f.ts

P_SRC_UP_SRC_A == <<"s", "r", "c", "/", ".", ".", "/", "s", "r", "c", "/", "a", ".", "t", "s">>   \* src/../src/a.ts

P_BACKSLASH_UP == <<"s", "r", "c", "\\", ".", ".", "\\", "a", ".", "t", "s">>   \* src\..\a.ts

P_ENV == <<".", "/", ".", "e", "n", "v">>   \* ./.env

P_UP_ENV == <<".", ".", "/", "h", "o", "m", "e", "/", ".", "e", "n", "v">>   \* ../home/.env

P_CREDENTIALS == <<".", "/", "c", "f", "g", "/", "c", "r", "e", "d", "e", "n", "t", "i", "a", "l", "s", ".", "j", "s", "o", "n">>   \* ./cfg/credentials.json

P_SRC_S_X == <<"s", "r", "c", "-", "s", "/", "x", ".", "t", "s">>   \* src-s/x.ts

P_SRC_DD_C == <<"s", "r", "c", "/", ".", ".", "d", "/", "c", ".", "t", "s">>   \* src/..d/c.ts

P_DD_TS == <<".", ".", "d", ".", "t", "s">>   \* ..d.ts

P_VENDOR == <<".", "/", "l", "i", "b", "/", "v", ".", ".", "l", ".", "j", "s">>   \* ./lib/v..l.js

P_PNG == <<"s", "r", "c", "/", "i", ".", "P", "N", "G">>   \* src/i.PNG

P_SRC == <<"s", "r", "c">>   \* src

P_MISSING == <<"s", "r", "c", "/", "n", "o", "n", "e", ".", "t", "s">>   \* src/none.ts

P_LNK == <<"s", "r", "c", "/", "l", "n", "k", ".", "t", "s">>   \* src/lnk.ts

P_MISSING_PNG == <<"s", "r", "c", "/", "n", "o", "n", "e", ".", "p", "n", "g">>   \* src/none.png

D_SRC == <<"s", "r", "c">>   \* src

D_SRC_S == <<"s", "r", "c", "-", "s">>   \* src-s

D_ABS_HOME == <<"/", "h", "o", "m", "e">>   \* /home

D_ABS_SRC == <<"/", "w", "w", "w", "/", "s", "r", "c">>   \* /www/src

G_TS == <<"*", ".", "t", "s">>   \* *.ts

G_ALL == <<"*", "*", "/", "*">>   \* **/*


P_INDEX == <<".", "/", "s", "r", "c", "/", "i", "n", "d", "e", "x", ".", "t", "s">>   \* ./src/index.ts

P_ENV_LOCAL_UPPER == <<"c", "f", "g", "/", ".", "E", "N", "V", ".", "L", "o", "c", "a", "l">>   \* cfg/.ENV.Local

P_PEM_BACKSLASH == <<"c", "f", "g", "\\", "s", "e", "r", "v", "e", "r", ".", "P", "E", "M">>   \* cfg\server.PEM

\* process.cwd()
Cwds == {CWD_WWW, CWD_HOME}

InputPaths ==
  {P_SRC_A, P_DOT_SRC_A, P_SRC_B, P_ABS_SRC_A, P_ABS_HOME_F, P_UP_HOME_F,
   P_SRC_UP_UP_HOME_F, P_SRC_UP_SRC_A, P_BACKSLASH_UP, P_ENV, P_UP_ENV,
   P_CREDENTIALS, P_SRC_S_X, P_SRC_DD_C, P_DD_TS, P_VENDOR, P_PNG, P_SRC,
   P_MISSING, P_LNK, P_MISSING_PNG}

\* a SecurityConfig that carries no property (also: no config argument)
NoConfig ==
  [has |-> {},
   allowedDirectories |-> <<>>,
   sensitivePatterns |-> <<>>,
   maxFileSize |-> 0,
   maxFiles |-> 0,
   allowSymlinks |-> FALSE]

WithAllowedDirectories(c, dirs) ==
  [c EXCEPT !.has = @ \cup {"allowedDirectories"}, !.allowedDirectories = dirs]

WithSensitivePatterns(c, pats) ==
  [c EXCEPT !.has = @ \cup {"sensitivePatterns"}, !.sensitivePatterns = pats]

WithMaxFileSize(c, n) ==
  [c EXCEPT !.has = @ \cup {"maxFileSize"}, !.maxFileSize = n]

WithMaxFiles(c, n) ==
  [c EXCEPT !.has = @ \cup {"maxFiles"}, !.maxFiles = n]

WithAllowSymlinks(c, b) ==
  [c EXCEPT !.has = @ \cup {"allowSymlinks"}, !.allowSymlinks = b]

\* the smallest per-file limit a caller passes
SmallLimit == 1

Configs ==
  {NoConfig,
   WithAllowedDirectories(NoConfig, <<D_SRC>>),
   WithAllowedDirectories(NoConfig, <<D_ABS_HOME, D_SRC>>),
   WithSensitivePatterns(NoConfig, <<>>),
   WithSensitivePatterns(NoConfig, <<G_TS>>),
   WithAllowSymlinks(NoConfig, TRUE),
   WithMaxFileSize(NoConfig, SmallLimit),
   WithMaxFileSize(WithAllowSymlinks(WithAllowedDirectories(NoConfig, <<D_SRC>>), TRUE),
                   SmallLimit)}

\* ------------------------------------------------------------------------
\* The file system
\* ------------------------------------------------------------------------

\* what a path names: nothing, a regular file of some size, a directory, a
\* symbolic link to a regular file of some size, or an entry the process may
\* not reach (lstat, stat and open fail with EACCES)
Missing == [kind |-> "missing", size |-> 0]

Denied == [kind |-> "denied", size |-> 0]

File(n) == [kind |-> "file", size |-> n]

Link(n) == [kind |-> "symlink", size |-> n]

\* stat reports a size for a directory too
Dir == [kind |-> "dir", size |-> SmallLimit + 1]

Sizes == {SmallLimit, SmallLimit + 1, DEFAULT_MAX_FILE_SIZE, DEFAULT_MAX_FILE_SIZE + 1}

NodeStates == {Missing, Denied, Dir, Link(SmallLimit)} \cup {File(n) : n \in Sizes}

\* the tree the process starts in, in directory-listing order
InitialTree ==
     \* /www
  << <<<<"/", "w", "w", "w">>,
       Dir>>,
     \* /www/.env
     <<<<"/", "w", "w", "w", "/", ".", "e", "n", "v">>,
       File(SmallLimit)>>,
     \* /www/..d.ts
     <<<<"/", "w", "w", "w", "/", ".", ".", "d", ".", "t", "s">>,
       File(SmallLimit)>>,
     \* /www/cfg/credentials.json
     <<<<"/", "w", "w", "w", "/", "c", "f", "g", "/", "c", "r", "e", "d", "e", "n", "t", "i", "a", "l", "s", ".", "j", "s", "o", "n">>,
       File(SmallLimit)>>,
     \* /www/lib/v..l.js
     <<<<"/", "w", "w", "w", "/", "l", "i", "b", "/", "v", ".", ".", "l", ".", "j", "s">>,
       File(SmallLimit)>>,
     \* /www/src
     <<<<"/", "w", "w", "w", "/", "s", "r", "c">>,
       Dir>>,
     \* /www/src/..d/c.ts
     <<<<"/", "w", "w", "w", "/", "s", "r", "c", "/", ".", ".", "d", "/", "c", ".", "t", "s">>,
       File(SmallLimit)>>,
     \* /www/src/a.ts
     <<<<"/", "w", "w", "w", "/", "s", "r", "c", "/", "a", ".", "t", "s">>,
       File(SmallLimit)>>,
     \* /www/src/b.ts
     <<<<"/", "w", "w", "w", "/", "s", "r", "c", "/", "b", ".", "t", "s">>,
       File(SmallLimit + 1)>>,
     \* /www/src/i.PNG
     <<<<"/", "w", "w", "w", "/", "s", "r", "c", "/", "i", ".", "P", "N", "G">>,
       File(SmallLimit)>>,
     \* /www/src/lnk.ts
     <<<<"/", "w", "w", "w", "/", "s", "r", "c", "/", "l", "n", "k", ".", "t", "s">>,
       Link(SmallLimit)>>,
     \* /www/src/node_modules/m.ts
     <<<<"/", "w", "w", "w", "/", "s", "r", "c", "/", "n", "o", "d", "e", "_", "m", "o", "d", "u", "l", "e", "s", "/", "m", ".", "t", "s">>,
       File(SmallLimit)>>,
     \* /www/src/none.ts
     <<<<"/", "w", "w", "w", "/", "s", "r", "c", "/", "n", "o", "n", "e", ".", "t", "s">>,
       Missing>>,
     \* /www/src-s
     <<<<"/", "w", "w", "w", "/", "s", "r", "c", "-", "s">>,
       Dir>>,
     \* /www/src-s/x.ts
     <<<<"/", "w", "w", "w", "/", "s", "r", "c", "-", "s", "/", "x", ".", "t", "s">>,
       File(SmallLimit)>>,
     \* /home
     <<<<"/", "h", "o", "m", "e">>,
       Dir>>,
     \* /home/.env
     <<<<"/", "h", "o", "m", "e", "/", ".", "e", "n", "v">>,
       File(SmallLimit)>>,
     \* /home/f.ts
     <<<<"/", "h", "o", "m", "e", "/", "f", ".", "t", "s">>,
       File(SmallLimit)>> >>

FsListing == [i \in 1..Len(InitialTree) |-> InitialTree[i][1]]

FsNodes == {FsListing[i] : i \in 1..Len(FsListing)}

InitialFs ==
  [n \in FsNodes |-> LET i == CHOOSE j \in 1..Len(InitialTree) : InitialTree[j][1] = n
                     IN InitialTree[i][2]]

\* the entry a path names in file system f; a path the tree does not know
\* names nothing
Lookup(f, node) == IF node \in DOMAIN f THEN f[node] ELSE Missing

\* fs.lstat: the error code, or "" and the entry itself
Lstat(st) ==
  IF st.kind = "missing" THEN [err |-> "ENOENT", isSymbolicLink |-> FALSE]
  ELSE IF st.kind = "denied" THEN [err |-> "EACCES", isSymbolicLink |-> FALSE]
  ELSE [err |-> "", isSymbolicLink |-> st.kind = "symlink"]

\* fs.stat: follows a link
Stat(st) ==
  IF st.kind = "missing" THEN [err |-> "ENOENT", size |-> 0, isDirectory |-> FALSE]
  ELSE IF st.kind = "denied" THEN [err |-> "EACCES", size |-> 0, isDirectory |-> FALSE]
  ELSE [err |-> "", size |-> st.size, isDirectory |-> st.kind = "dir"]

\* fs.readFile(path, 'utf-8'): the error code, or "" and the content, which
\* the model identifies by the entry it was read through and its length
ReadContent(st) ==
  IF st.kind = "missing" THEN [err |-> "ENOENT", via |-> "", len |-> 0]
  ELSE IF st.kind = "denied" THEN [err |-> "EACCES", via |-> "", len |-> 0]
  ELSE IF st.kind = "dir" THEN [err |-> "EISDIR", via |-> "", len |-> 0]
  ELSE [err |-> "", via |-> st.kind, len |-> st.size]

\* isSymlink asking fs.stat, which follows the link and so never reports
\* one; C10 tells the two apart
isSymlink_ViaStat(st) == LET r == Stat(st) IN r.err = "" /\ FALSE

\* isSymlink taking a path that names nothing for a link, the failure C11
\* excludes
isSymlink_MissingIsLink(st) ==
  LET r == Lstat(st) IN IF r.err = "ENOENT" THEN TRUE ELSE r.err = "" /\ r.isSymbolicLink

\* isSymlink (security.ts): lstat, and false when lstat fails
isSymlink(st) == LET r == Lstat(st) IN IF r.err # "" THEN FALSE ELSE r.isSymbolicLink

\* validateFileSize(filePath, maxSize), st being what filePath names when
\* getFileSize stats it: a failing stat is swallowed
validateFileSize(st, maxSize) ==
  LET r == Stat(st)
  IN IF r.err = "" /\ r.size > maxSize THEN "SIZE_EXCEEDED" ELSE "OK"

\* a validateFileCount that rejects a count equal to the limit; C16 tells the
\* two apart
validateFileCount_AtLeast(count, maxFiles) ==
  IF count >= maxFiles THEN "FILE_LIMIT_EXCEEDED" ELSE "OK"

\* validateFileCount(count, maxFiles)
validateFileCount(count, maxFiles) ==
  IF count > maxFiles THEN "FILE_LIMIT_EXCEEDED" ELSE "OK"

\* readFile's maxSize (line 598): config?.maxFileSize ?? the default
EffectiveMaxFileSize(config) ==
  IF "maxFileSize" \in config.has THEN config.maxFileSize
  ELSE DEFAULT_SECURITY_CONFIG.maxFileSize

\* ------------------------------------------------------------------------
\* State
\* ------------------------------------------------------------------------

\* how many times the environment may change the file system under a call
MaxFsChanges == 1

\* how many calls a session of the server makes
MaxCalls == 2

VARIABLES
  cwd,        \* process.cwd()
  fs,         \* the file system: what every path of the tree names now
  fsChanges,  \* how many times the environment has changed fs
  call,       \* the API call in flight: operation, arguments, position
  tasks,      \* one readFile (or validatePath) invocation per input path
  errors,     \* readFiles' local errors array
  result,     \* what the call returned or threw to its caller
  defaultConfig,  \* the module's DEFAULT_SECURITY_CONFIG object, as it is now
  client,     \* the server's GeminiClient
  lastCall    \* the latest call of the session and what it worked with

\* the variables of one file-reading call
fileVars == <<cwd, fs, fsChanges, call, tasks, errors, result>>

vars == <<defaultConfig, client, lastCall, cwd, fs, fsChanges, call, tasks, errors, result>>

\* what one invocation ends with: nothing yet, a FileContent record, null
\* (readFiles' skip), a normal return without value, or an exception
NoOut ==
  [tag |-> "none", code |-> "", path |-> <<>>, absolutePath |-> <<>>,
   size |-> 0, via |-> "", len |-> 0]

Null == [NoOut EXCEPT !.tag = "null"]

Void == [NoOut EXCEPT !.tag = "void"]

SecurityError(code, p) == [NoOut EXCEPT !.tag = "SecurityError", !.code = code, !.path = p]

FileReadError(kind, p) == [NoOut EXCEPT !.tag = "FileReadError", !.code = kind, !.path = p]

\* an error of the operating system that nothing wrapped
OsError(code, p) == [NoOut EXCEPT !.tag = "OsError", !.code = code, !.path = p]

FileContent(p, abs, size, via, len) ==
  [tag |-> "record", code |-> "", path |-> p, absolutePath |-> abs,
   size |-> size, via |-> via, len |-> len]

\* readFile's catch block (lines 612-629): the FileReadError an OS error
\* becomes
MapOsError(code, p) ==
  IF code = "ENOENT" THEN FileReadError("NOT_FOUND", p)
  ELSE IF code = "EACCES" THEN FileReadError("NO_PERMISSION", p)
  ELSE IF code = "EISDIR" THEN FileReadError("IS_DIRECTORY", p)
  ELSE FileReadError("FAILED", p)

\* validatePath has returned. Called on its own it is over; inside readFile
\* (lines 589-596) the binary check follows, then fs.stat is awaited
AfterValidatePath(t, op) ==
  IF op = "validatePath" THEN [t EXCEPT !.pc = "done", !.out = Void]
  ELSE IF isBinaryFile(t.path)
       THEN [t EXCEPT !.pc = "done", !.out = FileReadError("BINARY", t.path)]
  ELSE [t EXCEPT !.pc = "stat"]

\* an invocation on path p that has not run yet; node is path.resolve(p), the
\* file the path names for the operating system in working directory wd; seq
\* is its place among the invocations that settled after awaiting the file
\* system (0: none yet)
NewTask(p, wd) ==
  [path |-> p, node |-> PathResolve(wd, p), pc |-> "lstat", ops |-> {}, size |-> 0,
   out |-> NoOut, seq |-> 0]

\* an invocation that skips validatePath's path rules; C1 tells the two apart
Task_WithoutPathRules(p, c, wd, op) ==
  IF MergedConfig(c).allowSymlinks THEN AfterValidatePath(NewTask(p, wd), op)
  ELSE NewTask(p, wd)

\* one invocation of op (validatePath or readFile) on path p under config c,
\* run up to its first await. validatePath's
\* three path rules run before anything is awaited (security.ts lines
\* 336-360); isSymlink is awaited next unless symlinks are allowed
Task(p, c, wd, op) ==
  LET t == NewTask(p, wd)
      static == StaticRules(p, c, wd)
  IN IF static # "OK" THEN [t EXCEPT !.pc = "done", !.out = SecurityError(static, p)]
     ELSE IF MergedConfig(c).allowSymlinks THEN AfterValidatePath(t, op)
     ELSE t

NoOptions ==
  [has |-> {}, include |-> <<>>, exclude |-> <<>>, maxFileSize |-> 0, maxFiles |-> 0]

NoResult == [tag |-> "none", error |-> NoOut, records |-> <<>>, bool |-> FALSE]

Returned(records) == [NoResult EXCEPT !.tag = "returned", !.records = records]

ReturnedBool(b) == [NoResult EXCEPT !.tag = "returned", !.bool = b]

Thrown(e) == [NoResult EXCEPT !.tag = "thrown", !.error = e]

Idle ==
  [op |-> "idle", pc |-> "idle", path |-> <<>>, base |-> <<>>, dirs |-> <<>>,
   config |-> NoConfig, options |-> NoOptions, dirOps |-> {}, found |-> 0]

\* src/tools/brainstorm.ts line 48: type SupportedModel
DEFAULT_MODEL == "gemini-3-pro-preview"

FLASH_MODEL == "gemini-3-flash-preview"

\* params.model absent
NoModel == ""

ModelParams == {NoModel, DEFAULT_MODEL, FLASH_MODEL}

\* new GeminiClient({ apiKey, model })
NewClient(model) ==
  LET modelId == IF model = NoModel THEN DEFAULT_MODEL ELSE model
  IN [modelId |-> modelId, configModel |-> modelId]

\* GeminiClient.setModel
setModel(c, modelId) == [c EXCEPT !.modelId = modelId, !.configModel = modelId]

\* GeminiClient.getModel
getModel(c) == c.modelId

\* no call made yet. n counts the calls; passed is the config object as the
\* caller passed it and config the same object after the call; before is the
\* config passed to the call before; merged is the config the call worked
\* with; model is params.model and modelUsed the model of the API request
NoCall ==
  [n |-> 0, op |-> "none", passed |-> NoConfig, config |-> NoConfig,
   before |-> NoConfig, merged |-> NoConfig, model |-> NoModel, modelUsed |-> NoModel]

Init ==
  /\ defaultConfig = DEFAULT_SECURITY_CONFIG
  /\ client = NewClient(NoModel)
  /\ lastCall = NoCall
  /\ cwd \in Cwds
  /\ fs = InitialFs
  /\ fsChanges = 0
  /\ call = Idle
  /\ tasks = <<>>
  /\ errors = <<>>
  /\ result = NoResult

\* the file a path names for the operating system
NodeOf(p) == PathResolve(cwd, p)

BatchOps == {"readFiles", "readDirectory"}

\* task i becomes t2; inside readFiles, the callback's catch pushes the
\* failure of a readFile onto errors
Settle(i, t2) ==
  /\ tasks' = [tasks EXCEPT ![i] =
                 IF t2.pc = "done"
                 THEN [t2 EXCEPT !.seq = 1 + Cardinality({j \in DOMAIN tasks : tasks[j].seq > 0})]
                 ELSE t2]
  /\ errors' = IF /\ call.op \in BatchOps
                  /\ t2.pc = "done"
                  /\ t2.out.tag \in {"SecurityError", "FileReadError"}
               THEN Append(errors, [path |-> t2.path, error |-> t2.out.code])
               ELSE errors

\* ------------------------------------------------------------------------
\* The calls
\* ------------------------------------------------------------------------

\* the bases hasPathTraversal is called with; the empty string stands for no
\* basePath
Bases == {<<>>, CWD_WWW, D_SRC, D_ABS_SRC}

Whitelists == {<<>>, <<D_SRC>>, <<D_ABS_HOME, D_SRC>>, <<D_ABS_SRC, D_SRC_S>>}

CallHasPathTraversal(p, b) ==
  /\ call.pc = "idle"
  /\ call' = [Idle EXCEPT !.op = "hasPathTraversal", !.pc = "done", !.path = p, !.base = b]
  /\ result' = ReturnedBool(
       hasPathTraversal(p, IF Len(b) > 0 THEN PathResolve(cwd, b) ELSE cwd))
  /\ UNCHANGED <<defaultConfig, client, lastCall, cwd, fs, fsChanges, tasks, errors>>

CallIsWithinAllowedDirectory(p, dirs) ==
  /\ call.pc = "idle"
  /\ call' = [Idle EXCEPT !.op = "isWithinAllowedDirectory", !.pc = "done",
                          !.path = p, !.dirs = dirs]
  /\ result' = ReturnedBool(isWithinAllowedDirectory(p, dirs, cwd))
  /\ UNCHANGED <<defaultConfig, client, lastCall, cwd, fs, fsChanges, tasks, errors>>

\* the paths isSensitiveFile is called with
SensitiveInputs == InputPaths \cup {P_INDEX, P_ENV_LOCAL_UPPER, P_PEM_BACKSLASH}

\* the configs whose sensitivePatterns isSensitiveFile is called with; none
\* stands for the call without a second argument
PatternConfigs ==
  {NoConfig, WithSensitivePatterns(NoConfig, <<>>), WithSensitivePatterns(NoConfig, <<G_TS>>)}

\* the patterns argument, with its default (security.ts line 215)
PatternsOf(c) ==
  IF "sensitivePatterns" \in c.has THEN c.sensitivePatterns ELSE DEFAULT_SENSITIVE_PATTERNS

CallIsSensitiveFile(p, c) ==
  /\ call.pc = "idle"
  /\ call' = [Idle EXCEPT !.op = "isSensitiveFile", !.pc = "done", !.path = p, !.config = c]
  /\ result' = ReturnedBool(isSensitiveFile(p, PatternsOf(c)))
  /\ UNCHANGED <<defaultConfig, client, lastCall, cwd, fs, fsChanges, tasks, errors>>

CallValidatePath(p, c) ==
  /\ call.pc = "idle"
  /\ call' = [Idle EXCEPT !.op = "validatePath", !.pc = "run", !.path = p, !.config = c]
  /\ tasks' = <<Task(p, c, cwd, "validatePath")>>
  /\ UNCHANGED <<defaultConfig, client, lastCall, cwd, fs, fsChanges, errors, result>>

CallReadFile(p, c) ==
  /\ call.pc = "idle"
  /\ call' = [Idle EXCEPT !.op = "readFile", !.pc = "run", !.path = p, !.config = c]
  /\ tasks' = <<Task(p, c, cwd, "readFile")>>
  /\ UNCHANGED <<defaultConfig, client, lastCall, cwd, fs, fsChanges, errors, result>>

\* readFiles' map callbacks (lines 647-662), each run up to its first await: a
\* binary path returns null at once, every other path enters readFile
Spawn(paths, c, wd) ==
  [i \in 1..Len(paths) |->
     IF isBinaryFile(paths[i])
     THEN [NewTask(paths[i], wd) EXCEPT !.pc = "done", !.out = Null]
     ELSE Task(paths[i], c, wd, "readFile")]

\* the errors array once every callback has run up to its first await: the
\* callbacks whose readFile was rejected by a path rule have pushed, in the
\* order of the input
SpawnErrors(ts) ==
  LET failed == SelectSeq(ts, LAMBDA t : t.pc = "done" /\ t.out.tag = "SecurityError")
  IN [i \in 1..Len(failed) |-> [path |-> failed[i].path, error |-> failed[i].out.code]]

\* ------------------------------------------------------------------------
\* readFile, step by step (one step per await)
\* ------------------------------------------------------------------------

\* security.ts lines 362-370: the awaited isSymlink of validatePath answers
IsSymlinkStep(i) ==
  /\ call.pc = "run"
  /\ i \in DOMAIN tasks
  /\ tasks[i].pc = "lstat"
  /\ LET t == [tasks[i] EXCEPT !.ops = {"lstat"}]
     IN Settle(i,
          IF isSymlink(Lookup(fs, t.node))
          THEN [t EXCEPT !.pc = "done", !.out = SecurityError("SYMLINK_DETECTED", t.path)]
          ELSE AfterValidatePath(t, call.op))
  /\ UNCHANGED <<defaultConfig, client, lastCall, cwd, fs, fsChanges, call, result>>

\* lines 594-596: fs.stat(absolutePath)
StatFile(i) ==
  /\ call.pc = "run"
  /\ i \in DOMAIN tasks
  /\ tasks[i].pc = "stat"
  /\ LET t == tasks[i]
         stats == Stat(Lookup(fs, t.node))
     IN Settle(i,
          IF stats.err # ""
          THEN [t EXCEPT !.pc = "done", !.ops = @ \cup {"stat"},
                         !.out = MapOsError(stats.err, t.path)]
          ELSE [t EXCEPT !.pc = "size", !.ops = @ \cup {"stat"}, !.size = stats.size])
  /\ UNCHANGED <<defaultConfig, client, lastCall, cwd, fs, fsChanges, call, result>>

\* lines 598-599: validateFileSize(absolutePath, maxSize), which stats again
CheckSize(i) ==
  /\ call.pc = "run"
  /\ i \in DOMAIN tasks
  /\ tasks[i].pc = "size"
  /\ LET t == tasks[i]
         v == validateFileSize(Lookup(fs, t.node), EffectiveMaxFileSize(call.config))
     IN Settle(i,
          IF v # "OK"
          THEN [t EXCEPT !.pc = "done", !.ops = @ \cup {"getFileSize"},
                         !.out = SecurityError(v, t.node)]
          ELSE [t EXCEPT !.pc = "read", !.ops = @ \cup {"getFileSize"}])
  /\ UNCHANGED <<defaultConfig, client, lastCall, cwd, fs, fsChanges, call, result>>

\* lines 601-610: fs.readFile, then the record, whose size is the first
\* stat's
ReadContentStep(i) ==
  /\ call.pc = "run"
  /\ i \in DOMAIN tasks
  /\ tasks[i].pc = "read"
  /\ LET t == tasks[i]
         r == ReadContent(Lookup(fs, t.node))
     IN Settle(i,
          IF r.err # ""
          THEN [t EXCEPT !.pc = "done", !.ops = @ \cup {"readFile"},
                         !.out = MapOsError(r.err, t.path)]
          ELSE [t EXCEPT !.pc = "done", !.ops = @ \cup {"readFile"},
                         !.out = FileContent(t.path, t.node, t.size, r.via, r.len)])
  /\ UNCHANGED <<defaultConfig, client, lastCall, cwd, fs, fsChanges, call, result>>

\* a readFile whose catch block wraps whatever was thrown in the try into a
\* FileReadError; C19 tells the two apart
ReturnSingle_Wrapping ==
  /\ call.pc = "run"
  /\ call.op \in {"validatePath", "readFile"}
  /\ tasks[1].pc = "done"
  /\ call' = [call EXCEPT !.pc = "done"]
  /\ result' = IF tasks[1].out.tag = "record" THEN Returned(<<tasks[1].out>>)
               ELSE IF tasks[1].out.tag = "void" THEN Returned(<<>>)
               ELSE IF "stat" \in tasks[1].ops
               THEN Thrown(FileReadError("FAILED", tasks[1].path))
               ELSE Thrown(tasks[1].out)
  /\ UNCHANGED <<defaultConfig, client, lastCall, cwd, fs, fsChanges, tasks, errors>>

\* validatePath or readFile hands its outcome to the caller
ReturnSingle ==
  /\ call.pc = "run"
  /\ call.op \in {"validatePath", "readFile"}
  /\ tasks[1].pc = "done"
  /\ call' = [call EXCEPT !.pc = "done"]
  /\ result' = IF tasks[1].out.tag = "record" THEN Returned(<<tasks[1].out>>)
               ELSE IF tasks[1].out.tag = "void" THEN Returned(<<>>)
               ELSE Thrown(tasks[1].out)
  /\ UNCHANGED <<defaultConfig, client, lastCall, cwd, fs, fsChanges, tasks, errors>>

\* ------------------------------------------------------------------------
\* The environment
\* ------------------------------------------------------------------------

\* the paths of the tree the call in flight still has to look at
CallNodes ==
  {tasks[i].node : i \in {j \in DOMAIN tasks : tasks[j].pc # "done"}}
    \cup (IF call.pc \in {"dirLstat", "dirStat", "dirScan"} THEN {NodeOf(call.path)} ELSE {})

\* another process changes what a path names while the call is in flight
FsChange(n, st) ==
  /\ call.pc \notin {"idle", "done"}
  /\ fsChanges < MaxFsChanges
  /\ n \in CallNodes \cap DOMAIN fs
  /\ st # fs[n]
  /\ fs' = [fs EXCEPT ![n] = st]
  /\ fsChanges' = fsChanges + 1
  /\ UNCHANGED <<defaultConfig, client, lastCall, cwd, call, tasks, errors, result>>

\* ------------------------------------------------------------------------
\* readFiles
\* ------------------------------------------------------------------------

\* the path lists readFiles is called with, each with its config
BatchCalls ==
  {<<<<P_SRC_A, P_SRC_B>>, NoConfig>>,
   <<<<P_SRC_B, P_SRC_A>>, WithMaxFileSize(NoConfig, SmallLimit)>>,
   <<<<P_PNG, P_SRC_A>>, NoConfig>>,
   <<<<P_ENV, P_SRC_A>>, WithSensitivePatterns(NoConfig, <<>>)>>,
   <<<<P_MISSING, P_SRC_B>>, NoConfig>>,
   <<<<P_LNK, P_SRC_S_X>>, WithAllowedDirectories(NoConfig, <<D_SRC>>)>>,
   <<<<P_SRC_A, P_UP_HOME_F, P_PNG>>, NoConfig>>,
   <<<<>>, NoConfig>>}

CallReadFiles(ps, c) ==
  /\ call.pc = "idle"
  /\ call' = [Idle EXCEPT !.op = "readFiles", !.pc = "run", !.config = c]
  /\ tasks' = Spawn(ps, c, cwd)
  /\ errors' = SpawnErrors(tasks')
  /\ UNCHANGED <<defaultConfig, client, lastCall, cwd, fs, fsChanges, result>>

\* a readFiles that gives up its records when any callback failed; C12 tells
\* the two apart
Records_AllOrNothing(ts) ==
  IF \E i \in DOMAIN ts : ts[i].out.tag \in {"SecurityError", "FileReadError"}
  THEN <<>>
  ELSE SelectSeq([i \in 1..Len(ts) |-> ts[i].out], LAMBDA o : o.tag = "record")

\* a readFiles that collects each record as its callback settles; C15 tells
\* the two apart
Records_CompletionOrder(ts) ==
  LET got == {i \in DOMAIN ts : ts[i].out.tag = "record"}
  IN [k \in 1..Cardinality(got) |->
        ts[CHOOSE i \in got : Cardinality({j \in got : ts[j].seq < ts[i].seq}) = k - 1].out]

\* the records of the settled array, nulls filtered out, in its order
Records(ts) ==
  LET settled == [i \in 1..Len(ts) |-> ts[i].out]
  IN SelectSeq(settled, LAMBDA o : o.tag = "record")

\* a readFiles that awaits Promise.race in place of Promise.all and returns
\* with the first callback that settles; C28 tells the two apart
ReturnReadFiles_Race ==
  /\ call.pc = "run"
  /\ call.op = "readFiles"
  /\ \E i \in DOMAIN tasks : tasks[i].pc = "done"
  /\ call' = [call EXCEPT !.pc = "done"]
  /\ result' = Returned(Records(tasks))
  /\ UNCHANGED <<defaultConfig, client, lastCall, cwd, fs, fsChanges, tasks, errors>>

\* lines 664-681: Promise.all has every callback's value; readFiles returns
\* the records (errors goes to console.warn only)
ReturnReadFiles ==
  /\ call.pc = "run"
  /\ call.op = "readFiles"
  /\ \A i \in DOMAIN tasks : tasks[i].pc = "done"
  /\ call' = [call EXCEPT !.pc = "done"]
  /\ result' = Returned(Records(tasks))
  /\ UNCHANGED <<defaultConfig, client, lastCall, cwd, fs, fsChanges, tasks, errors>>

\* ------------------------------------------------------------------------
\* readDirectory
\* ------------------------------------------------------------------------

WithInclude(o, pats) == [o EXCEPT !.has = @ \cup {"include"}, !.include = pats]

WithExclude(o, pats) == [o EXCEPT !.has = @ \cup {"exclude"}, !.exclude = pats]

WithOptMaxFiles(o, n) == [o EXCEPT !.has = @ \cup {"maxFiles"}, !.maxFiles = n]

WithOptMaxFileSize(o, n) == [o EXCEPT !.has = @ \cup {"maxFileSize"}, !.maxFileSize = n]

\* the directories readDirectory is called with, each with its options and
\* its options.securityConfig
DirCalls ==
  {<<D_SRC, NoOptions, NoConfig>>,
   <<D_ABS_SRC, NoOptions, WithAllowedDirectories(NoConfig, <<D_SRC>>)>>,
   <<D_SRC, WithInclude(NoOptions, <<G_ALL>>), WithMaxFileSize(NoConfig, SmallLimit)>>,
   <<D_SRC, WithOptMaxFileSize(NoOptions, SmallLimit), NoConfig>>,
   <<D_SRC, WithOptMaxFiles(NoOptions, SmallLimit), NoConfig>>,
   <<D_SRC, WithOptMaxFiles(WithInclude(NoOptions, <<G_TS>>), SmallLimit + 1), NoConfig>>,
   <<D_SRC, WithInclude(NoOptions, <<G_TS>>), WithMaxFiles(NoConfig, SmallLimit)>>,
   <<D_SRC, WithExclude(NoOptions, <<G_TS>>), WithMaxFiles(NoConfig, SmallLimit)>>,
   <<D_SRC_S, WithInclude(NoOptions, <<G_TS>>), NoConfig>>,
   <<P_SRC_A, NoOptions, NoConfig>>,
   <<P_MISSING, NoOptions, NoConfig>>,
   <<P_LNK, NoOptions, NoConfig>>,
   <<P_UP_HOME_F, NoOptions, NoConfig>>}

\* line 702: validatePath(directory, options?.securityConfig), up to its
\* first await
CallReadDirectory(d, o, c) ==
  /\ call.pc = "idle"
  /\ LET static == StaticRules(d, c, cwd)
         entered == [Idle EXCEPT !.op = "readDirectory", !.path = d, !.options = o,
                                 !.config = c]
     IN IF static # "OK"
        THEN /\ call' = [entered EXCEPT !.pc = "done"]
             /\ result' = Thrown(SecurityError(static, d))
        ELSE /\ call' = [entered EXCEPT !.pc = IF MergedConfig(c).allowSymlinks
                                                THEN "dirStat" ELSE "dirLstat"]
             /\ UNCHANGED result
  /\ UNCHANGED <<defaultConfig, client, lastCall, cwd, fs, fsChanges, tasks, errors>>

\* security.ts lines 362-370, for the directory
DirIsSymlinkStep ==
  /\ call.pc = "dirLstat"
  /\ IF isSymlink(Lookup(fs, NodeOf(call.path)))
     THEN /\ call' = [call EXCEPT !.pc = "done", !.dirOps = {"lstat"}]
          /\ result' = Thrown(SecurityError("SYMLINK_DETECTED", call.path))
     ELSE /\ call' = [call EXCEPT !.pc = "dirStat", !.dirOps = {"lstat"}]
          /\ UNCHANGED result
  /\ UNCHANGED <<defaultConfig, client, lastCall, cwd, fs, fsChanges, tasks, errors>>

\* lines 704-716: stat the directory; only ENOENT is wrapped, whatever else
\* was thrown inside the try is thrown on as it is
DirStat ==
  /\ call.pc = "dirStat"
  /\ LET stats == Stat(Lookup(fs, NodeOf(call.path)))
         thrown ==
           IF stats.err = "ENOENT" THEN FileReadError("DIR_NOT_FOUND", call.path)
           ELSE IF stats.err # "" THEN OsError(stats.err, NodeOf(call.path))
           ELSE IF ~stats.isDirectory THEN FileReadError("NOT_A_DIRECTORY", call.path)
           ELSE NoOut
     IN IF thrown # NoOut
        THEN /\ call' = [call EXCEPT !.pc = "done", !.dirOps = @ \cup {"stat"}]
             /\ result' = Thrown(thrown)
        ELSE /\ call' = [call EXCEPT !.pc = "dirScan", !.dirOps = @ \cup {"stat"}]
             /\ UNCHANGED result
  /\ UNCHANGED <<defaultConfig, client, lastCall, cwd, fs, fsChanges, tasks, errors>>

\* whether node lies strictly below directory dir (both absolute)
IsBelow(node, dir) ==
  LET n == ResolveSegs(<<SLASH>>, node)
      d == ResolveSegs(<<SLASH>>, dir)
  IN Len(n) > Len(d) /\ SubSeq(n, 1, Len(d)) = d

\* lines 718-723: the include list and the ignore list handed to fast-glob
IncludeOf(o) == IF "include" \in o.has THEN o.include ELSE <<G_ALL>>

BinaryExclude == [i \in 1..Len(BINARY_EXTENSIONS) |-> <<STAR, STAR, SLASH, STAR>> \o BINARY_EXTENSIONS[i]]

\* an ignore list in which the caller's exclude list takes the place of the
\* built-in one; C22 tells the two apart
IgnoreOf_CallerReplaces(o) ==
  (IF "exclude" \in o.has THEN o.exclude ELSE DEFAULT_EXCLUDE_PATTERNS) \o BinaryExclude

IgnoreOf(o) ==
  DEFAULT_EXCLUDE_PATTERNS \o (IF "exclude" \in o.has THEN o.exclude ELSE <<>>)
    \o BinaryExclude

\* fast-glob over file system f from absoluteDir (onlyFiles, dot: false,
\* followSymbolicLinks: false, case-sensitive): the relative paths of the
\* regular files below it that a pattern of include matches and no pattern
\* of ignore does; ignore patterns match dot-files too
Scan(f, absoluteDir, include, ignore) ==
  LET hit(n) ==
        /\ IsBelow(n, absoluteDir)
        /\ Lookup(f, n).kind = "file"
        /\ IsMatch(PathRelative(absoluteDir, n), include, FALSE, FALSE)
        /\ ~IsMatch(PathRelative(absoluteDir, n), ignore, TRUE, FALSE)
      found == SelectSeq(FsListing, hit)
  IN [i \in 1..Len(found) |-> PathRelative(absoluteDir, found[i])]

\* line 734: options?.maxFiles ?? the default
EffectiveMaxFiles(o) ==
  IF "maxFiles" \in o.has THEN o.maxFiles ELSE DEFAULT_SECURITY_CONFIG.maxFiles

\* lines 725-739: the scan (a directory that vanished yields no file, one
\* that cannot be listed makes fast-glob throw), the count check, and
\* readFiles entered on the joined paths; found keeps files.length
DirScan ==
  /\ call.pc = "dirScan"
  /\ LET absoluteDir == NodeOf(call.path)
         st == Lookup(fs, absoluteDir)
         files == IF st.kind = "missing" THEN <<>>
                  ELSE Scan(fs, absoluteDir, IncludeOf(call.options), IgnoreOf(call.options))
         count == validateFileCount(Len(files), EffectiveMaxFiles(call.options))
         filePaths == [i \in 1..Len(files) |-> PathJoin(call.path, files[i])]
     IN IF st.kind \notin {"missing", "dir"}
        THEN /\ call' = [call EXCEPT !.pc = "done", !.dirOps = @ \cup {"glob"}]
             /\ result' = Thrown(OsError(IF st.kind = "denied" THEN "EACCES" ELSE "ENOTDIR",
                                         absoluteDir))
             /\ UNCHANGED <<tasks, errors>>
        ELSE IF count # "OK"
        THEN /\ call' = [call EXCEPT !.pc = "done", !.dirOps = @ \cup {"glob"},
                                     !.found = Len(files)]
             /\ result' = Thrown(SecurityError(count, <<>>))
             /\ UNCHANGED <<tasks, errors>>
        ELSE /\ call' = [call EXCEPT !.pc = "run", !.dirOps = @ \cup {"glob"},
                                     !.found = Len(files)]
             /\ tasks' = Spawn(filePaths, call.config, cwd)
             /\ errors' = SpawnErrors(tasks')
             /\ UNCHANGED result
  /\ UNCHANGED <<defaultConfig, client, lastCall, cwd, fs, fsChanges>>

\* a readDirectory that throws the first failure of a file instead of
\* returning the records of the others; C24 tells the two apart
ReturnReadDirectory_Strict ==
  /\ call.pc = "run"
  /\ call.op = "readDirectory"
  /\ \A i \in DOMAIN tasks : tasks[i].pc = "done"
  /\ call' = [call EXCEPT !.pc = "done"]
  /\ result' =
       IF \E i \in DOMAIN tasks : tasks[i].out.tag = "SecurityError"
       THEN Thrown(tasks[CHOOSE i \in DOMAIN tasks : tasks[i].out.tag = "SecurityError"].out)
       ELSE LET contents == Records(tasks)
            IN Returned([i \in 1..Len(contents) |->
                 [contents[i] EXCEPT
                    !.path = PathRelative(NodeOf(call.path), contents[i].absolutePath)]])
  /\ UNCHANGED <<defaultConfig, client, lastCall, cwd, fs, fsChanges, tasks, errors>>

\* lines 739-744: readFiles has returned; every record's path is rewritten
\* relative to directory
ReturnReadDirectory ==
  /\ call.pc = "run"
  /\ call.op = "readDirectory"
  /\ \A i \in DOMAIN tasks : tasks[i].pc = "done"
  /\ call' = [call EXCEPT !.pc = "done"]
  /\ result' =
       LET contents == Records(tasks)
       IN Returned([i \in 1..Len(contents) |->
            [contents[i] EXCEPT
               !.path = PathRelative(NodeOf(call.path), contents[i].absolutePath)]])
  /\ UNCHANGED <<defaultConfig, client, lastCall, cwd, fs, fsChanges, tasks, errors>>

\* ------------------------------------------------------------------------
\* handleAnalyzeContent with a filePath, and handleAPIError
\* ------------------------------------------------------------------------

\* String.prototype.includes
StringIncludes(s, sub) ==
  \E i \in 0..(Len(s) - Len(sub)) : SubSeq(s, i + 1, i + Len(sub)) = sub

RECURSIVE Digits(_)
\* a natural number as decimal text
Digits(n) ==
  LET d == <<"0", "1", "2", "3", "4", "5", "6", "7", "8", "9">>
  IN IF n < 10 THEN <<d[n + 1]>> ELSE Digits(n \div 10) \o <<d[(n % 10) + 1]>>

\* security.ts formatBytes: the count in the largest unit not above it, to
\* two decimals with trailing zeros dropped (parseFloat of toFixed(2))
formatBytes(bytes) ==
  LET sizes == <<<<"B", "y", "t", "e", "s">>, <<"K", "B">>, <<"M", "B">>>>
      i == IF bytes < 1024 THEN 0 ELSE IF bytes < 1024 * 1024 THEN 1 ELSE 2
      unit == IF i = 0 THEN 1 ELSE IF i = 1 THEN 1024 ELSE 1024 * 1024
      hundredths == (bytes * 200 + unit) \div (2 * unit)
      whole == hundredths \div 100
      frac == hundredths % 100
      decimals == IF frac = 0 THEN <<>>
                  ELSE IF frac % 10 = 0 THEN <<".">> \o Digits(frac \div 10)
                  ELSE <<".">> \o (IF frac < 10 THEN <<"0">> ELSE <<>>) \o Digits(frac)
  IN IF bytes = 0 THEN <<"0", " ", "B", "y", "t", "e", "s">>
     ELSE Digits(whole) \o decimals \o <<" ">> \o sizes[i + 1]

\* the message of the SecurityError with this code on path p; st is the
\* entry getFileSize found and maxSize the limit (security.ts lines 338, 347,
\* 356, 367, 416)
SecurityErrorMessage(code, p, st, maxSize) ==
  IF code = "PATH_TRAVERSAL"
  THEN <<"P", "a", "t", "h", " ", "t", "r", "a", "v", "e", "r", "s", "a", "l", " ", "a", "t", "t", "a", "c", "k", " ", "b", "l", "o", "c", "k", "e", "d", ":", " ", "\"">> \o p \o <<"\"", " ", "c", "o", "n", "t", "a", "i", "n", "s", " ", "d", "i", "s", "a", "l", "l", "o", "w", "e", "d", " ", "p", "a", "t", "h", " ", "t", "r", "a", "v", "e", "r", "s", "a", "l", " ", "p", "a", "t", "t", "e", "r", "n">>
  ELSE IF code = "SENSITIVE_FILE"
  THEN <<"A", "c", "c", "e", "s", "s", " ", "t", "o", " ", "s", "e", "n", "s", "i", "t", "i", "v", "e", " ", "f", "i", "l", "e", " ", "d", "e", "n", "i", "e", "d", ":", " ", "\"">> \o p \o <<"\"", " ", "m", "a", "t", "c", "h", "e", "s", " ", "s", "e", "n", "s", "i", "t", "i", "v", "e", " ", "f", "i", "l", "e", " ", "p", "a", "t", "t", "e", "r", "n">>
  ELSE IF code = "ACCESS_DENIED"
  THEN <<"A", "c", "c", "e", "s", "s", " ", "d", "e", "n", "i", "e", "d", ":", " ", "\"">> \o p \o <<"\"", " ", "i", "s", " ", "n", "o", "t", " ", "i", "n", " ", "t", "h", "e", " ", "a", "l", "l", "o", "w", "e", "d", " ", "d", "i", "r", "e", "c", "t", "o", "r", "y", " ", "l", "i", "s", "t">>
  ELSE IF code = "SYMLINK_DETECTED"
  THEN <<"S", "y", "m", "l", "i", "n", "k", " ", "a", "c", "c", "e", "s", "s", " ", "d", "e", "n", "i", "e", "d", ":", " ", "\"">> \o p \o <<"\"", " ", "i", "s", " ", "a", " ", "s", "y", "m", "b", "o", "l", "i", "c", " ", "l", "i", "n", "k">>
  ELSE <<"F", "i", "l", "e", " ", "s", "i", "z", "e", " ", "e", "x", "c", "e", "e", "d", "e", "d", ":", " ", "\"">> \o p \o <<"\"", " ", "s", "i", "z", "e", " ", "i", "s", " ">> \o formatBytes(Stat(st).size)
         \o <<",", " ", "e", "x", "c", "e", "e", "d", "s", " ", "l", "i", "m", "i", "t", " ", "o", "f", " ">> \o formatBytes(maxSize)

\* the message of the FileReadError readFile throws (lines 590 and 617-628)
FileReadErrorMessage(kind, p) ==
  IF kind = "BINARY" THEN <<"C", "a", "n", "n", "o", "t", " ", "r", "e", "a", "d", " ", "b", "i", "n", "a", "r", "y", " ", "f", "i", "l", "e", ":", " ", "\"">> \o p \o <<"\"">>
  ELSE IF kind = "NOT_FOUND" THEN <<"F", "i", "l", "e", " ", "n", "o", "t", " ", "f", "o", "u", "n", "d", ":", " ", "\"">> \o p \o <<"\"">>
  ELSE IF kind = "NO_PERMISSION" THEN <<"N", "o", " ", "p", "e", "r", "m", "i", "s", "s", "i", "o", "n", " ", "t", "o", " ", "a", "c", "c", "e", "s", "s", " ", "f", "i", "l", "e", ":", " ", "\"">> \o p \o <<"\"">>
  ELSE IF kind = "IS_DIRECTORY" THEN <<"P", "a", "t", "h", " ", "i", "s", " ", "a", " ", "d", "i", "r", "e", "c", "t", "o", "r", "y", ",", " ", "n", "o", "t", " ", "a", " ", "f", "i", "l", "e", ":", " ", "\"">> \o p \o <<"\"">>
  ELSE <<"F", "a", "i", "l", "e", "d", " ", "t", "o", " ", "r", "e", "a", "d", " ", "f", "i", "l", "e", ":", " ", "\"">> \o p \o <<"\"">>

\* the messages of the errors GeminiClient.handleError makes of a failed API
\* request
ApiErrorMessages ==
  {<<"I", "n", "v", "a", "l", "i", "d", " ", "A", "P", "I", " ", "k", "e", "y">>,
   <<"A", "P", "I", " ", "q", "u", "o", "t", "a", " ", "e", "x", "c", "e", "e", "d", "e", "d">>,
   <<"R", "e", "q", "u", "e", "s", "t", " ", "t", "i", "m", "e", "o", "u", "t">>,
   <<"U", "n", "k", "n", "o", "w", "n", " ", "e", "r", "r", "o", "r">>}

\* handleAPIError(error): the code of the MCP error, chosen by the words of
\* error.message
handleAPIError(message) ==
  IF StringIncludes(message, <<"A", "P", "I", " ", "k", "e", "y">>) \/ StringIncludes(message, <<"I", "n", "v", "a", "l", "i", "d", " ", "k", "e", "y">>)
  THEN "API_ERROR"
  ELSE IF StringIncludes(message, <<"q", "u", "o", "t", "a">>) \/ StringIncludes(message, <<"r", "a", "t", "e", " ", "l", "i", "m", "i", "t">>)
  THEN "RATE_LIMIT"
  ELSE IF StringIncludes(message, <<"t", "i", "m", "e", "o", "u", "t">>)
  THEN "TIMEOUT"
  ELSE IF StringIncludes(message, <<"m", "o", "d", "e", "l">>) \/ StringIncludes(message, <<"n", "o", "t", " ", "f", "o", "u", "n", "d">>)
  THEN "MODEL_NOT_SUPPORTED"
  ELSE "API_ERROR"

\* handleAnalyzeContent({ filePath: p }): the parameters pass validation and
\* readFile(params.filePath) is entered, without a config
HandleAnalyzeContentFile(p) ==
  /\ call.pc = "idle"
  /\ call' = [Idle EXCEPT !.op = "analyzeContent", !.pc = "run", !.path = p]
  /\ tasks' = <<Task(p, NoConfig, cwd, "readFile")>>
  /\ UNCHANGED <<defaultConfig, client, lastCall, cwd, fs, fsChanges, errors, result>>

\* readFile threw: the inner catch wraps a SecurityError into a plain Error
\* and rethrows anything else; the outer catch throws handleAPIError of it
AnalyzeContentReadFailed ==
  /\ call.pc = "run"
  /\ call.op = "analyzeContent"
  /\ tasks[1].pc = "done"
  /\ tasks[1].out.tag # "record"
  /\ LET e == tasks[1].out
         message ==
           IF e.tag = "SecurityError"
           THEN <<"S", "e", "c", "u", "r", "i", "t", "y", " ", "v", "a", "l", "i", "d", "a", "t", "i", "o", "n", " ", "f", "a", "i", "l", "e", "d", ":", " ">>
                  \o SecurityErrorMessage(e.code, e.path, Lookup(fs, tasks[1].node),
                                          EffectiveMaxFileSize(call.config))
           ELSE FileReadErrorMessage(e.code, e.path)
     IN result' = Thrown([NoOut EXCEPT !.tag = "MCPError", !.code = handleAPIError(message)])
  /\ call' = [call EXCEPT !.pc = "done"]
  /\ UNCHANGED <<defaultConfig, client, lastCall, cwd, fs, fsChanges, tasks, errors>>

\* the file was read: client.generate answers, or fails with one of the
\* client's errors, which the outer catch hands to handleAPIError
AnalyzeContentGenerate ==
  /\ call.pc = "run"
  /\ call.op = "analyzeContent"
  /\ tasks[1].pc = "done"
  /\ tasks[1].out.tag = "record"
  /\ \/ result' = Returned(<<>>)
     \/ \E message \in ApiErrorMessages :
          result' = Thrown([NoOut EXCEPT !.tag = "MCPError", !.code = handleAPIError(message)])
  /\ call' = [call EXCEPT !.pc = "done"]
  /\ UNCHANGED <<defaultConfig, client, lastCall, cwd, fs, fsChanges, tasks, errors>>

\* ------------------------------------------------------------------------
\* A session: calls one after another in the same process
\* ------------------------------------------------------------------------

SecurityOps ==
  {"validatePath", "validatePaths", "mergeSecurityConfig", "readFile", "readFiles",
   "readDirectory"}

\* a call that appends the caller's patterns to the module's array in place;
\* C25 tells the two apart
AfterCall_MergeInPlace(op, d, c) ==
  [defaults |->
     IF op = "mergeSecurityConfig" /\ "sensitivePatterns" \in c.has
     THEN [d EXCEPT !.sensitivePatterns = @ \o c.sensitivePatterns]
     ELSE d,
   config |-> c]

\* what call op leaves of the module's default object d and of the caller's
\* config object c: the spreads of security.ts lines 333 and 475-483 build
\* new objects and arrays, and no function assigns to a property of d, of
\* DEFAULT_SENSITIVE_PATTERNS or of c
AfterCall(op, d, c) == [defaults |-> d, config |-> c]

\* the config call op works with when the module's default object is d:
\* mergeSecurityConfig's return value (lines 475-483), validatePath's
\* mergedConfig (line 333) for the others
MergedIn(d, op, c) ==
  IF op = "mergeSecurityConfig"
  THEN [Spread(d, c) EXCEPT
          !.sensitivePatterns =
             d.sensitivePatterns \o
               (IF "sensitivePatterns" \in c.has THEN c.sensitivePatterns ELSE <<>>)]
  ELSE Spread(d, c)

\* one call of the security or file-reading API with config c
SecurityCall(op, c) ==
  /\ lastCall.n < MaxCalls
  /\ LET after == AfterCall(op, defaultConfig, c)
     IN /\ defaultConfig' = after.defaults
        /\ lastCall' = [NoCall EXCEPT !.n = lastCall.n + 1, !.op = op, !.passed = c,
                                      !.config = after.config, !.before = lastCall.passed,
                                      !.merged = MergedIn(defaultConfig, op, c)]
  /\ UNCHANGED <<client, fileVars>>

\* handleBrainstorm up to its API request (brainstorm.ts lines 292-297)
HandleBrainstorm(model) ==
  /\ lastCall.n < MaxCalls
  /\ client' = setModel(client, IF model = NoModel THEN DEFAULT_MODEL ELSE model)
  /\ lastCall' = [NoCall EXCEPT !.n = lastCall.n + 1, !.op = "handleBrainstorm",
                                !.model = model, !.modelUsed = getModel(client')]
  /\ UNCHANGED <<defaultConfig, fileVars>>

\* handleMultimodalQuery (multimodal-query.ts lines 64-76): it has no model
\* parameter; generateMultimodal sends this.modelId
HandleMultimodalQuery ==
  /\ lastCall.n < MaxCalls
  /\ lastCall' = [NoCall EXCEPT !.n = lastCall.n + 1, !.op = "handleMultimodalQuery",
                                !.modelUsed = getModel(client)]
  /\ UNCHANGED <<defaultConfig, client, fileVars>>

\* handleAnalyzeContent with the content parameter (gemini-client.js lines
\* 439-444): generate sends this.modelId
HandleAnalyzeContentText ==
  /\ lastCall.n < MaxCalls
  /\ lastCall' = [NoCall EXCEPT !.n = lastCall.n + 1, !.op = "handleAnalyzeContent",
                                !.modelUsed = getModel(client)]
  /\ UNCHANGED <<defaultConfig, client, fileVars>>

\* ------------------------------------------------------------------------
\* The specification
\* ------------------------------------------------------------------------

Next ==
  \/ \E p \in InputPaths, b \in Bases : CallHasPathTraversal(p, b)
  \/ \E p \in InputPaths, dirs \in Whitelists : CallIsWithinAllowedDirectory(p, dirs)
  \/ \E p \in SensitiveInputs, c \in PatternConfigs : CallIsSensitiveFile(p, c)
  \/ \E p \in InputPaths, c \in Configs : CallValidatePath(p, c)
  \/ \E p \in InputPaths, c \in Configs : CallReadFile(p, c)
  \/ \E b \in BatchCalls : CallReadFiles(b[1], b[2])
  \/ \E d \in DirCalls : CallReadDirectory(d[1], d[2], d[3])
  \/ \E i \in DOMAIN tasks : IsSymlinkStep(i)
  \/ \E i \in DOMAIN tasks : StatFile(i)
  \/ \E i \in DOMAIN tasks : CheckSize(i)
  \/ \E i \in DOMAIN tasks : ReadContentStep(i)
  \/ ReturnSingle
  \/ ReturnReadFiles
  \/ DirIsSymlinkStep
  \/ DirStat
  \/ DirScan
  \/ ReturnReadDirectory
  \/ \E p \in InputPaths : HandleAnalyzeContentFile(p)
  \/ AnalyzeContentReadFailed
  \/ AnalyzeContentGenerate
  \/ \E n \in CallNodes, st \in NodeStates : FsChange(n, st)

Spec == Init /\ [][Next]_vars

SessionNext ==
  \/ \E op \in SecurityOps, c \in Configs : SecurityCall(op, c)
  \/ \E model \in ModelParams : HandleBrainstorm(model)
  \/ HandleMultimodalQuery
  \/ HandleAnalyzeContentText

SessionSpec == Init /\ [][SessionNext]_vars

\* ------------------------------------------------------------------------
\* Properties
\* ------------------------------------------------------------------------

\* segment sequence a is a prefix of segment sequence b
SegPrefix(a, b) == Len(a) <= Len(b) /\ SubSeq(b, 1, Len(a)) = a

\* absolute path node is directory dir itself or lies below it, compared name
\* by name
AtOrBelow(node, dir) ==
  SegPrefix(ResolveSegs(<<SLASH>>, dir), ResolveSegs(<<SLASH>>, node))

\* some raw segment of p, split on "/" or "\", is exactly ".."
HasParentSegment(p) ==
  LET segments == Split(p, {SLASH, BACKSLASH})
  IN \E i \in 1..Len(segments) : segments[i] = DOTDOT

\* task i, if it exists, has entered validatePath and run its path rules
Entered(i) == tasks[i].out.tag # "null"

\* task i is created in this step and runs validatePath up to its first await
Begins(i) == i \notin DOMAIN tasks /\ i \in DOMAIN tasks' /\ tasks'[i].out.tag # "null"

\* task i gets outcome tag in this step
Becomes(i, tag) ==
  /\ i \in DOMAIN tasks'
  /\ tasks'[i].out.tag = tag
  /\ i \in DOMAIN tasks => tasks[i].out.tag # tag

\* the three rules validatePath applies to path p before it looks at the
\* file system, under config c
Traversing(p) == hasPathTraversal(p, cwd)

Sensitive(p, c) == isSensitiveFile(p, MergedConfig(c).sensitivePatterns)

OutsideWhitelist(p, c) ==
  ~isWithinAllowedDirectory(p, MergedConfig(c).allowedDirectories, cwd)

\* C1: a file record is created only for a path on which validatePath
\* succeeded under the call's config: none of the three path rules rejects it,
\* lstat was consulted unless symlinks are allowed, and (when the file system
\* has not changed since) the path names no symbolic link; and every record
\* handed to the caller of readFile, readFiles or readDirectory is such a
\* record.
C1_RecordsOnlyForValidatedPaths ==
  /\ [][\A i \in DOMAIN tasks' :
          Becomes(i, "record") =>
            /\ ~Traversing(tasks'[i].path)
            /\ ~Sensitive(tasks'[i].path, call'.config)
            /\ ~OutsideWhitelist(tasks'[i].path, call'.config)
            /\ MergedConfig(call'.config).allowSymlinks \/ "lstat" \in tasks'[i].ops
            /\ (fsChanges' = 0 /\ ~MergedConfig(call'.config).allowSymlinks)
                 => Lookup(fs', tasks'[i].node).kind # "symlink"]_vars
  /\ [](\A k \in DOMAIN result.records :
          \E i \in DOMAIN tasks :
            /\ tasks[i].out.tag = "record"
            /\ tasks[i].out.absolutePath = result.records[k].absolutePath)

C1_Witness ==
  /\ call.op = "readFiles"
  /\ result.tag = "returned"
  /\ Len(result.records) = 1
  /\ \E i \in DOMAIN tasks : tasks[i].out.code = "PATH_TRAVERSAL"
  /\ \E i \in DOMAIN tasks : tasks[i].out.tag = "null"

\* C2: every record's size is at most the effective maxFileSize of the call.
C2_RecordSizeWithinLimit ==
  \A i \in DOMAIN tasks :
    tasks[i].out.tag = "record" => tasks[i].out.size <= EffectiveMaxFileSize(call.config)

\* the SecurityError code an invocation has ended with, "" when it has not
ErrorCode(t) == IF t.out.tag = "SecurityError" THEN t.out.code ELSE ""

\* code is what the first violated path rule of p under c demands, in the
\* order traversal, sensitive, whitelist; "" when p violates none
FirstViolated(p, c, code) ==
  IF Traversing(p) THEN code = "PATH_TRAVERSAL"
  ELSE IF Sensitive(p, c) THEN code = "SENSITIVE_FILE"
  ELSE IF OutsideWhitelist(p, c) THEN code = "ACCESS_DENIED"
  ELSE code = ""

\* C3: validatePath reports the first violated rule in the order traversal,
\* sensitive, whitelist, symlink: before its first await it has thrown for
\* the first of the three path rules the path violates, and for nothing else;
\* SYMLINK_DETECTED comes only for a path that violates none of the three; and
\* an invocation one of the three rejected never called lstat.
C3_FirstViolatedRuleReported ==
  /\ [][\A i \in DOMAIN tasks' :
          Begins(i) =>
            /\ FirstViolated(tasks'[i].path, call'.config, ErrorCode(tasks'[i]))
            /\ ErrorCode(tasks'[i]) # "" => tasks'[i].pc = "done"]_vars
  /\ [][(call.op = "idle" /\ call'.op = "readDirectory") =>
          FirstViolated(call'.path, call'.config,
                        IF result'.tag = "thrown" THEN result'.error.code ELSE "")]_vars
  /\ [][\A i \in DOMAIN tasks' :
          (Becomes(i, "SecurityError") /\ tasks'[i].out.code = "SYMLINK_DETECTED")
            => FirstViolated(tasks'[i].path, call'.config, "")]_vars
  /\ [](\A i \in DOMAIN tasks :
          tasks[i].out.code \in {"PATH_TRAVERSAL", "SENSITIVE_FILE", "ACCESS_DENIED"}
            => tasks[i].ops = {})

C3_Witness ==
  \E i \in DOMAIN tasks :
    /\ Entered(i)
    /\ tasks[i].out.code = "PATH_TRAVERSAL"
    /\ tasks[i].pc = "done"
    /\ Traversing(tasks[i].path)
    /\ isSensitiveFile(tasks[i].path, DEFAULT_SENSITIVE_PATTERNS)

\* C4: whatever sensitivePatterns the caller passes, a path that matches a
\* built-in default pattern (and does not traverse) is rejected with
\* SENSITIVE_FILE.
C4_DefaultPatternsAlwaysApply ==
  \A i \in DOMAIN tasks :
    (/\ Entered(i)
     /\ tasks[i].out.code # "SENSITIVE_FILE"
     /\ ~Traversing(tasks[i].path))
      => ~isSensitiveFile(tasks[i].path, DEFAULT_SENSITIVE_PATTERNS)

\* C5: with a non-empty whitelist isWithinAllowedDirectory answers true only
\* for a path that is an entry or lies below one, name by name; and
\* validatePath raises ACCESS_DENIED for a path that neither traverses nor
\* is sensitive and lies at or below no entry.
C5_WhitelistOnlyAdmitsDescendants ==
  /\ []((/\ call.op = "isWithinAllowedDirectory"
         /\ Len(call.dirs) > 0
         /\ result.bool)
          => \E k \in 1..Len(call.dirs) :
               AtOrBelow(PathResolve(cwd, call.path), PathResolve(cwd, call.dirs[k])))
  /\ [][\A i \in DOMAIN tasks' :
          LET dirs == MergedConfig(call'.config).allowedDirectories
          IN (/\ Begins(i)
              /\ Len(dirs) > 0
              /\ \A k \in 1..Len(dirs) :
                   ~AtOrBelow(tasks'[i].node, PathResolve(cwd, dirs[k]))
              /\ ~Traversing(tasks'[i].path)
              /\ ~Sensitive(tasks'[i].path, call'.config))
               => tasks'[i].out = SecurityError("ACCESS_DENIED", tasks'[i].path)]_vars

C5_Witness ==
  /\ call.op = "validatePath"
  /\ call.path = P_SRC_S_X
  /\ call.config.allowedDirectories = <<D_SRC>>
  /\ tasks[1].out.code = "ACCESS_DENIED"

\* C6: isWithinAllowedDirectory answers true for every path when the
\* whitelist is empty, and for every path that is an entry or lies below one.
C6_WhitelistAdmitsEveryDescendant ==
  call.op = "isWithinAllowedDirectory" =>
    /\ Len(call.dirs) = 0 => result.bool
    /\ (\E k \in 1..Len(call.dirs) :
          AtOrBelow(PathResolve(cwd, call.path), PathResolve(cwd, call.dirs[k])))
         => result.bool

\* C7: under the default config validatePath accepts every absolute path
\* that is not sensitive and has no ".." segment, whatever the working
\* directory.
C7_AbsolutePathsAccepted ==
  \A i \in DOMAIN tasks :
    (/\ Entered(i)
     /\ call.config = NoConfig
     /\ tasks[i].out.tag = "SecurityError"
     /\ IsAbsolute(tasks[i].path)
     /\ ~HasParentSegment(tasks[i].path)
     /\ Lookup(fs, tasks[i].node).kind # "symlink"
     /\ fsChanges = 0)
      => isSensitiveFile(tasks[i].path, DEFAULT_SENSITIVE_PATTERNS)

\* the base a hasPathTraversal call works with
BaseOf(b) == IF Len(b) > 0 THEN PathResolve(cwd, b) ELSE cwd

\* C8: a path that resolves outside base, or one of whose raw segments is
\* "..", makes hasPathTraversal answer true, and validatePath (whose base is
\* the working directory) raise PATH_TRAVERSAL without any other check.
C8_TraversalDetected ==
  /\ (/\ call.op = "hasPathTraversal"
      /\ \/ ~AtOrBelow(PathResolve(BaseOf(call.base), call.path), BaseOf(call.base))
         \/ HasParentSegment(call.path))
       => result.bool
  /\ \A i \in DOMAIN tasks :
       (/\ Entered(i)
        /\ tasks[i].out # SecurityError("PATH_TRAVERSAL", tasks[i].path) \/ tasks[i].ops # {})
         => /\ AtOrBelow(tasks[i].node, cwd)
            /\ ~HasParentSegment(tasks[i].path)

C8_Witness ==
  /\ call.op = "hasPathTraversal"
  /\ call.path = P_SRC_UP_SRC_A
  /\ AtOrBelow(PathResolve(BaseOf(call.base), call.path), BaseOf(call.base))
  /\ result.bool

\* C9: a path that resolves at or below base and has no raw ".." segment
\* makes hasPathTraversal answer false.
C9_NoFalseTraversal ==
  (/\ call.op = "hasPathTraversal"
   /\ AtOrBelow(PathResolve(BaseOf(call.base), call.path), BaseOf(call.base))
   /\ ~HasParentSegment(call.path))
    => ~result.bool

\* validatePath's awaited isSymlink answers on task i in this step
IsSymlinkAnswers(i) ==
  /\ i \in DOMAIN tasks
  /\ tasks[i].pc = "lstat"
  /\ i \in DOMAIN tasks'
  /\ tasks'[i].pc # "lstat"

\* C10: when validatePath runs with allowSymlinks false on a path that passes
\* the three path rules and names a symbolic link whose link status can be
\* read, it raises SYMLINK_DETECTED; no record is ever produced by an
\* invocation that raised it; and with allowSymlinks true it is never raised.
C10_SymlinkRule ==
  /\ [][\A i \in DOMAIN tasks :
          (/\ IsSymlinkAnswers(i)
           /\ Lookup(fs, tasks[i].node).kind = "symlink"
           /\ ~MergedConfig(call.config).allowSymlinks
           /\ FirstViolated(tasks[i].path, call.config, ""))
            => /\ tasks'[i].out = SecurityError("SYMLINK_DETECTED", tasks[i].path)
               /\ tasks'[i].pc = "done"]_vars
  /\ [][\A i \in DOMAIN tasks :
          (i \in DOMAIN tasks' /\ tasks[i].out.tag = "SecurityError")
            => tasks'[i].out = tasks[i].out]_vars
  /\ [](\A i \in DOMAIN tasks :
          MergedConfig(call.config).allowSymlinks => tasks[i].out.code # "SYMLINK_DETECTED")

C10_Witness ==
  /\ call.op = "readFile"
  /\ call.path = P_SRC_A
  /\ tasks[1].out.code = "SYMLINK_DETECTED"
  /\ result.tag = "thrown"

\* the extension of p, compared without regard to case, is in the binary set
HasBinaryExtension(p) ==
  \E k \in 1..Len(BINARY_EXTENSIONS) : ToLowerCase(Extname(p)) = BINARY_EXTENSIONS[k]

\* task i leaves position pc in this step
Leaves(i, pc) ==
  /\ i \in DOMAIN tasks
  /\ tasks[i].pc = pc
  /\ i \in DOMAIN tasks'
  /\ tasks'[i].pc # pc

\* the path of the single call in flight names nothing and never did
NeverExisted ==
  /\ call.op \in {"validatePath", "readFile"}
  /\ call.pc = "done"
  /\ fsChanges = 0
  /\ Lookup(fs, tasks[1].node).kind = "missing"

\* C11 as stated: validatePath succeeds on a path that names nothing and
\* passes the three path rules, and readFile on it fails with the read failure
\* "File not found".
C11_MissingPathNotFound ==
  (NeverExisted /\ FirstViolated(call.path, call.config, ""))
    => IF call.op = "validatePath" THEN result = Returned(<<>>)
       ELSE result = Thrown(FileReadError("NOT_FOUND", call.path))

\* C11, amended: the symlink rule never fails on a path that names nothing
\* when lstat looks; a stat that finds nothing ends readFile with "File not
\* found"; and on a path that never existed and passes the three path rules
\* validatePath succeeds, while readFile fails with "File not found" when the
\* extension is not binary and with the binary-file read failure when it is.
C11_MissingPathDeferredToRead ==
  /\ [][\A i \in DOMAIN tasks :
          (Leaves(i, "lstat") /\ Lookup(fs, tasks[i].node).kind = "missing")
            => /\ tasks'[i].out.tag # "SecurityError"
               /\ call.op = "validatePath" => tasks'[i].out = Void]_vars
  /\ [][\A i \in DOMAIN tasks :
          (Leaves(i, "stat") /\ Lookup(fs, tasks[i].node).kind = "missing")
            => tasks'[i].out = FileReadError("NOT_FOUND", tasks[i].path)]_vars
  /\ []((NeverExisted /\ FirstViolated(call.path, call.config, ""))
          => IF call.op = "validatePath" THEN result = Returned(<<>>)
             ELSE IF HasBinaryExtension(call.path)
                  THEN result = Thrown(FileReadError("BINARY", call.path))
             ELSE result = Thrown(FileReadError("NOT_FOUND", call.path)))

C11_Witness ==
  /\ NeverExisted
  /\ call.op = "readFile"
  /\ call.path = P_MISSING
  /\ ~MergedConfig(call.config).allowSymlinks
  /\ tasks[1].ops = {"lstat", "stat"}
  /\ result = Thrown(FileReadError("NOT_FOUND", P_MISSING))

\* ------------------------------------------------------------------------
\* readFiles: isolation of failures
\* ------------------------------------------------------------------------

\* readFiles has handed its value to the caller
ReadFilesDone == call.op = "readFiles" /\ call.pc = "done"

\* the indexes of the paths whose own readFile produced a record
Succeeded == {i \in DOMAIN tasks : tasks[i].out.tag = "record"}

\* the indexes of the paths whose own readFile threw
Failed == {i \in DOMAIN tasks : tasks[i].out.tag \in {"SecurityError", "FileReadError", "OsError"}}

\* C12: readFiles never throws because of one path: it returns normally, the
\* returned list holds the record of every path whose own readFile succeeded
\* and nothing else, and a callback that has settled keeps its value whatever
\* the other callbacks do afterwards
C12_ReadFilesIsolatesFailures ==
  /\ [](ReadFilesDone
          => /\ result.tag = "returned"
             /\ \A i \in Succeeded : \E k \in DOMAIN result.records : result.records[k] = tasks[i].out
             /\ Len(result.records) = Cardinality(Succeeded))
  /\ [][call.op = "readFiles"
          => \A i \in DOMAIN tasks : tasks[i].pc = "done" => tasks'[i] = tasks[i]]_vars

\* a call in which one path was rejected and another path's record is
\* returned
C12_Witness ==
  /\ ReadFilesDone
  /\ \E i \in Failed : tasks[i].out.tag = "SecurityError"
  /\ Cardinality(Succeeded) = 1
  /\ result = Returned(<<tasks[CHOOSE i \in Succeeded : TRUE].out>>)

\* line 681: the failures in the value handed to the caller. readFiles
\* returns the array of records; the errors array it filled is no part of
\* that value
ReturnedErrors == IF "errors" \in DOMAIN result THEN result.errors ELSE <<>>

\* C13: when readFiles has returned, the caller holds, next to the records,
\* one {path, message} entry for every non-binary path whose read failed
C13_FailuresReturned ==
  ReadFilesDone
    => \A i \in Failed :
         \E k \in DOMAIN ReturnedErrors :
           ReturnedErrors[k] = [path |-> tasks[i].path, error |-> tasks[i].out.code]

\* ------------------------------------------------------------------------
\* readFiles: binary paths
\* ------------------------------------------------------------------------

\* readFiles is entered in this step, by its caller or by readDirectory
ReadFilesEntered ==
  /\ call.pc \in {"idle", "dirScan"}
  /\ call'.pc = "run"
  /\ call'.op \in BatchOps

\* readFiles, called directly or by readDirectory, has returned
BatchReturned == call.op \in BatchOps /\ call.pc = "done" /\ result.tag = "returned"

\* C14: a path with a binary extension, in whatever case, yields null at
\* once: no file-system operation, no record, no entry in errors. Every
\* other path of the same call enters readFile exactly as a call of readFile
\* on it alone would, each step of the call moves one path only, and when
\* the call returns every such path has a record or has failed on its own
C14_BinaryPathsSkipped ==
  /\ [][ReadFilesEntered
          => \A i \in DOMAIN tasks' :
               IF HasBinaryExtension(tasks'[i].path)
               THEN tasks'[i].pc = "done" /\ tasks'[i].out = Null /\ tasks'[i].ops = {}
               ELSE tasks'[i] = Task(tasks'[i].path, call'.config, cwd, "readFile")]_vars
  /\ [][call.op \in BatchOps
          => \A i, j \in DOMAIN tasks :
               (i # j /\ tasks'[i] # tasks[i]) => tasks'[j] = tasks[j]]_vars
  /\ [](BatchReturned
          => \A i \in DOMAIN tasks :
               IF HasBinaryExtension(tasks[i].path)
               THEN /\ tasks[i].out = Null
                    /\ tasks[i].ops = {}
                    /\ \A k \in DOMAIN errors : errors[k].path # tasks[i].path
                    /\ \A k \in DOMAIN result.records :
                         result.records[k].absolutePath # tasks[i].node
               ELSE i \in Succeeded \cup Failed)

\* readFiles has returned from a list with a binary path in upper case, a
\* path that was read and a path that was rejected
C14_Witness ==
  /\ ReadFilesDone
  /\ \E i \in DOMAIN tasks : tasks[i].path = P_PNG /\ tasks[i].out = Null
  /\ \E i \in Succeeded : tasks[i].path = P_SRC_A
  /\ \E i \in Failed : tasks[i].path = P_UP_HOME_F
  /\ Len(result.records) = 1
  /\ Len(errors) = 1

\* ------------------------------------------------------------------------
\* readFiles: order of the records
\* ------------------------------------------------------------------------

\* the k-th smallest index of a set of indexes
Nth(S, k) == CHOOSE i \in S : Cardinality({j \in S : j < i}) = k - 1

\* C15: the k-th record readFiles returns is the record of the k-th input
\* path that produced one, in whatever order the reads completed
C15_RecordsInInputOrder ==
  ReadFilesDone
    => /\ Len(result.records) = Cardinality(Succeeded)
       /\ \A k \in DOMAIN result.records :
            result.records[k] = tasks[Nth(Succeeded, k)].out

\* two records are returned in input order although the read of the second
\* path completed before the read of the first
C15_Witness ==
  /\ ReadFilesDone
  /\ Succeeded = {1, 2}
  /\ tasks[2].seq < tasks[1].seq
  /\ result.records = <<tasks[1].out, tasks[2].out>>
  /\ tasks[1].out.path # tasks[2].out.path

\* ------------------------------------------------------------------------
\* readDirectory: the file-count ceiling
\* ------------------------------------------------------------------------

\* readDirectory's scan has been made
Scanned == call.op = "readDirectory" /\ "glob" \in call.dirOps

FileLimitExceeded == Thrown(SecurityError("FILE_LIMIT_EXCEEDED", <<>>))

\* C16: once the scan has found more candidates than the limit readDirectory
\* computes (line 734), the call is over with FILE_LIMIT_EXCEEDED and no
\* per-file invocation exists: nothing was validated, stat-ed or read. With
\* a count equal to or below the limit, readFiles is entered on every
\* candidate and the call never fails with FILE_LIMIT_EXCEEDED
C16_FileLimitBeforeAnyRead ==
  Scanned
    => IF call.found > EffectiveMaxFiles(call.options)
       THEN /\ call.pc = "done"
            /\ result = FileLimitExceeded
            /\ tasks = <<>>
            /\ errors = <<>>
            /\ call.dirOps \subseteq {"lstat", "stat", "glob"}
       ELSE /\ call.pc \in {"run", "done"}
            /\ Len(tasks) = call.found
            /\ result # FileLimitExceeded

\* a scan that found three candidates under a limit of one
C16_Witness ==
  /\ Scanned
  /\ call.path = D_SRC
  /\ call.found = 3
  /\ EffectiveMaxFiles(call.options) = SmallLimit
  /\ result = FileLimitExceeded
  /\ tasks = <<>>

\* C17: the ceiling is the maxFiles of the SecurityConfig given to the call
\* (500 when it has none): a scan that found more candidates than that is
\* aborted with FILE_LIMIT_EXCEEDED
C17_ConfigMaxFilesEnforced ==
  (Scanned /\ call.found > MergedConfig(call.config).maxFiles)
    => /\ result = FileLimitExceeded
       /\ tasks = <<>>

\* ------------------------------------------------------------------------
\* readFile: size check, error taxonomy
\* ------------------------------------------------------------------------

\* C18: a content read is issued only after the size check; and when the
\* size stat reported for the file exceeds the limit, the content read is
\* never issued and the invocation ends with SIZE_EXCEEDED
C18_SizeCheckBeforeRead ==
  \A i \in DOMAIN tasks :
    /\ "readFile" \in tasks[i].ops => "getFileSize" \in tasks[i].ops
    /\ tasks[i].size > EffectiveMaxFileSize(call.config)
         => /\ "readFile" \notin tasks[i].ops
            /\ tasks[i].pc = "done" => tasks[i].out.code = "SIZE_EXCEEDED"

\* readFile has handed its outcome to the caller
ReadFileDone == call.op = "readFile" /\ call.pc = "done"

SecurityCodes ==
  {"PATH_TRAVERSAL", "SENSITIVE_FILE", "ACCESS_DENIED", "SYMLINK_DETECTED",
   "SIZE_EXCEEDED", "FILE_LIMIT_EXCEEDED"}

\* C19: the SecurityError that validatePath or validateFileSize raised inside
\* readFile is what readFile's caller catches, code and path as they were
\* raised; the caller catches a FileReadError only when a FileReadError was
\* raised; and what was raised does not change before it is handed over
C19_SecurityErrorUnchanged ==
  /\ []((ReadFileDone /\ tasks[1].out.tag = "SecurityError")
          => /\ result = Thrown(tasks[1].out)
             /\ result.error.code \in SecurityCodes
             /\ result.error.path =
                  IF result.error.code = "SIZE_EXCEEDED" THEN tasks[1].node ELSE call.path)
  /\ []((ReadFileDone /\ result.tag = "thrown" /\ result.error.tag = "FileReadError")
          => tasks[1].out = result.error)
  /\ [][(call.op = "readFile" /\ tasks[1].pc = "done") => tasks' = tasks]_vars

\* readFile's caller catches the SIZE_EXCEEDED that validateFileSize raised
\* inside the try block
C19_Witness ==
  /\ ReadFileDone
  /\ tasks[1].ops = {"lstat", "stat", "getFileSize"}
  /\ result = Thrown(SecurityError("SIZE_EXCEEDED", NodeOf(call.path)))

\* C20: whatever readFile or readDirectory throws to its caller is a
\* SecurityError with one of the six codes or a FileReadError
C20_OnlyTypedFailures ==
  (call.op \in {"readFile", "readDirectory"} /\ call.pc = "done" /\ result.tag = "thrown")
    => \/ result.error.tag = "SecurityError" /\ result.error.code \in SecurityCodes
       \/ result.error.tag = "FileReadError"

\* ------------------------------------------------------------------------
\* validatePath: what the outcome depends on
\* ------------------------------------------------------------------------

\* validatePath, called on its own, has handed its outcome to the caller
ValidatePathDone == call.op = "validatePath" /\ call.pc = "done"

\* the code validatePath's caller sees; "" for success
OutcomeCode == IF result.tag = "thrown" THEN result.error.code ELSE ""

\* how validatePath(p, c) ends when it runs in /www on the tree as it is at
\* the start
OutcomeInWww(p, c) ==
  LET static == StaticRules(p, c, CWD_WWW)
  IN IF static # "OK" THEN static
     ELSE IF /\ ~MergedConfig(c).allowSymlinks
             /\ isSymlink(Lookup(InitialFs, PathResolve(CWD_WWW, p)))
     THEN "SYMLINK_DETECTED"
     ELSE ""

\* C21 as stated: config and path alone decide how validatePath ends, so
\* every run ends as the run on the same config and path in /www on the
\* untouched tree does
C21_OutcomeOfConfigAndPathAlone ==
  ValidatePathDone => OutcomeCode = OutcomeInWww(call.path, call.config)

\* C21, amended: config, path and working directory decide the three path
\* rules; when these pass and symlinks are not allowed, lstat is consulted
\* and the outcome is SYMLINK_DETECTED exactly when the path names a
\* symbolic link at that moment, success otherwise; nothing else of the
\* file system has a say, and the outcome reached is what the caller gets
C21_OutcomeOfConfigPathCwdAndLink ==
  /\ [][(call.op = "idle" /\ call'.op = "validatePath")
          => /\ FirstViolated(call'.path, call'.config, ErrorCode(tasks'[1]))
             /\ tasks'[1].pc = "lstat"
                  <=> (ErrorCode(tasks'[1]) = "" /\ ~MergedConfig(call'.config).allowSymlinks)
             /\ (ErrorCode(tasks'[1]) = "" /\ tasks'[1].pc # "lstat")
                  => tasks'[1].out = Void]_vars
  /\ [][(call.op = "validatePath" /\ Leaves(1, "lstat"))
          => tasks'[1].out = IF Lookup(fs, tasks[1].node).kind = "symlink"
                             THEN SecurityError("SYMLINK_DETECTED", call.path)
                             ELSE Void]_vars
  /\ [][(call.op = "validatePath" /\ tasks[1].pc = "done") => tasks' = tasks]_vars
  /\ [](ValidatePathDone
          => result = IF tasks[1].out = Void THEN Returned(<<>>) ELSE Thrown(tasks[1].out))

\* the same path and config that pass in /www on the untouched tree end in
\* SYMLINK_DETECTED once another process has put a link there
C21_Witness ==
  /\ ValidatePathDone
  /\ cwd = CWD_WWW
  /\ call.path = P_SRC_A
  /\ call.config = NoConfig
  /\ OutcomeInWww(P_SRC_A, NoConfig) = ""
  /\ fsChanges = 1
  /\ result = Thrown(SecurityError("SYMLINK_DETECTED", P_SRC_A))

\* ------------------------------------------------------------------------
\* readDirectory: what it returns
\* ------------------------------------------------------------------------

\* readDirectory has returned its records
ReadDirectoryReturned ==
  call.op = "readDirectory" /\ call.pc = "done" /\ result.tag = "returned"

\* the files below the scanned directory that a built-in exclude pattern
\* matches
DefaultExcluded ==
  {n \in DOMAIN fs :
     /\ IsBelow(n, NodeOf(call.path))
     /\ fs[n].kind = "file"
     /\ IsMatch(PathRelative(NodeOf(call.path), n), DEFAULT_EXCLUDE_PATTERNS, TRUE, FALSE)}

\* C22: whatever include and exclude lists the caller gave, no record
\* readDirectory returns has a path (relative to the scanned directory) that
\* a built-in exclude pattern matches, or a binary extension
C22_BuiltInExcludesAlwaysApply ==
  ReadDirectoryReturned
    => \A k \in DOMAIN result.records :
         /\ ~HasBinaryExtension(result.records[k].path)
         /\ ~IsMatch(result.records[k].path, DEFAULT_EXCLUDE_PATTERNS, TRUE, FALSE)

\* a scan with the include list **/* over a directory that holds a file
\* under node_modules returns records, none of them that file's
C22_Witness ==
  /\ ReadDirectoryReturned
  /\ call.options.include = <<G_ALL>>
  /\ result.records # <<>>
  /\ DefaultExcluded # {}

\* ------------------------------------------------------------------------
\* isSensitiveFile
\* ------------------------------------------------------------------------

\* some pattern of the list matches string str, whatever the letter case,
\* dot-files included
SomePatternMatches(str, patterns) ==
  \E k \in 1..Len(patterns) : GlobMatch(patterns[k], Split(str, {SLASH}), TRUE, TRUE)

\* C23: isSensitiveFile answers true exactly when some pattern matches the
\* slash-normalized path or the bare filename, without regard to letter
\* case and dot-files included; under the default list it answers false for
\* ./src/index.ts and true for ./.env, cfg/.ENV.Local, cfg\server.PEM and
\* ./cfg/credentials.json
C23_SensitiveExactlyWhenMatched ==
  call.op = "isSensitiveFile"
    => /\ result.bool
            <=> \/ SomePatternMatches(ReplaceBackslashes(call.path), PatternsOf(call.config))
                \/ SomePatternMatches(Basename(ReplaceBackslashes(call.path)),
                                      PatternsOf(call.config))
       /\ (call.path = P_INDEX /\ call.config = NoConfig) => ~result.bool
       /\ (call.path \in {P_ENV, P_ENV_LOCAL_UPPER, P_PEM_BACKSLASH, P_CREDENTIALS}
             /\ call.config = NoConfig) => result.bool

\* a path written with a backslash and in upper case that only the
\* filename check catches
C23_Witness ==
  /\ call.op = "isSensitiveFile"
  /\ call.path = P_PEM_BACKSLASH
  /\ call.config = NoConfig
  /\ ~SomePatternMatches(ReplaceBackslashes(call.path), DEFAULT_SENSITIVE_PATTERNS)
  /\ result = ReturnedBool(TRUE)

\* what the root of the scan is for the operating system
RootKind == Lookup(fs, NodeOf(call.path)).kind

\* readDirectory leaves position pc in this step
DirLeaves(pc) == call.pc = pc /\ call'.pc # pc

\* C24: readDirectory throws exactly when the operation as a whole cannot
\* go on: validatePath rejects the root (a path rule, or a symbolic link),
\* the root cannot be stat-ed or is no directory, the scan itself fails, or
\* the scan finds more candidates than the limit. It then has started no
\* per-file read and returns no record. Once readFiles is entered nothing
\* makes it throw, and it returns the record of every file that was read
C24_AbortOnlyOnPrecondition ==
  /\ [][(call.op = "idle" /\ call'.op = "readDirectory")
          => (result'.tag = "thrown" <=> ~FirstViolated(call'.path, call'.config, ""))]_vars
  /\ [][DirLeaves("dirLstat") => (result'.tag = "thrown" <=> RootKind = "symlink")]_vars
  /\ [][DirLeaves("dirStat") => (result'.tag = "thrown" <=> RootKind # "dir")]_vars
  /\ [][DirLeaves("dirScan")
          => (result'.tag = "thrown"
                <=> \/ RootKind \notin {"missing", "dir"}
                    \/ call'.found > EffectiveMaxFiles(call.options))]_vars
  /\ [][(call.op = "readDirectory" /\ call.pc = "run") => result'.tag # "thrown"]_vars
  /\ []((call.op = "readDirectory" /\ result.tag = "thrown")
          => call.pc = "done" /\ tasks = <<>> /\ result.records = <<>>)
  /\ [](ReadDirectoryReturned
          => /\ Len(result.records) = Cardinality(Succeeded)
             /\ \A i \in Succeeded :
                  \E k \in DOMAIN result.records :
                    /\ result.records[k].absolutePath = tasks[i].node
                    /\ result.records[k].len = tasks[i].out.len)

\* readDirectory returns the record of one file although another file of
\* the scan was rejected with a security error
C24_Witness ==
  /\ ReadDirectoryReturned
  /\ \E i \in Failed : tasks[i].out.tag = "SecurityError"
  /\ Succeeded # {}
  /\ Len(result.records) = Cardinality(Succeeded)

\* ------------------------------------------------------------------------
\* The session: configs and models
\* ------------------------------------------------------------------------

\* C25: no call changes the module's default object (DEFAULT_SECURITY_CONFIG
\* with its DEFAULT_SENSITIVE_PATTERNS array) or the caller's config object,
\* and the config a call works with is the merge of its own config onto the
\* defaults as the source defines them, whatever was passed before
C25_ConfigsMergedByValue ==
  /\ [][defaultConfig' = defaultConfig]_vars
  /\ [](defaultConfig = DEFAULT_SECURITY_CONFIG)
  /\ [](lastCall.op \in SecurityOps
          => /\ lastCall.config = lastCall.passed
             /\ lastCall.merged =
                  IF lastCall.op = "mergeSecurityConfig"
                  THEN mergeSecurityConfig(lastCall.passed)
                  ELSE MergedConfig(lastCall.passed))

\* validatePath without a config works with the default patterns right after
\* a call that was given patterns of its own
C25_Witness ==
  /\ lastCall.n = 2
  /\ lastCall.op = "validatePath"
  /\ lastCall.passed = NoConfig
  /\ lastCall.before = WithSensitivePatterns(NoConfig, <<G_TS>>)
  /\ lastCall.merged.sensitivePatterns = DEFAULT_SENSITIVE_PATTERNS

\* C26: a tool call without a model parameter sends its request to the
\* default model, whatever calls the client served before
C26_DefaultModelWithoutParameter ==
  (lastCall.op \in {"handleBrainstorm", "handleMultimodalQuery", "handleAnalyzeContent"}
     /\ lastCall.model = NoModel)
    => lastCall.modelUsed = DEFAULT_MODEL

\* C27: readDirectory called with options.maxFileSize returns no record
\* whose size exceeds it
C27_OptionMaxFileSizeEnforced ==
  (ReadDirectoryReturned /\ "maxFileSize" \in call.options.has)
    => \A k \in DOMAIN result.records : result.records[k].size <= call.options.maxFileSize

\* what readFiles' callback for path p ends with when it runs alone, from
\* its first line to its last, over the file system as it is
AloneOut(p, c) ==
  LET t == Task(p, c, cwd, "readFile")
      st == Lookup(fs, t.node)
      sized == validateFileSize(st, EffectiveMaxFileSize(c))
  IN IF isBinaryFile(p) THEN Null
     ELSE IF t.pc = "done" THEN t.out
     ELSE IF t.pc = "lstat" /\ isSymlink(st) THEN SecurityError("SYMLINK_DETECTED", p)
     ELSE IF Stat(st).err # "" THEN MapOsError(Stat(st).err, p)
     ELSE IF sized # "OK" THEN SecurityError(sized, t.node)
     ELSE IF ReadContent(st).err # "" THEN MapOsError(ReadContent(st).err, p)
     ELSE FileContent(p, t.node, Stat(st).size, ReadContent(st).via, ReadContent(st).len)

\* the callbacks that returned null without failing
Skipped == {i \in DOMAIN tasks : tasks[i].out.tag = "null"}

\* C28: over a file system that does not change during the call, every
\* input path of readFiles ends as exactly one of a record, a silent binary
\* skip and an entry of the errors array, so the three add up to the number
\* of paths; each path's outcome is the one it has when read alone, whatever
\* the interleaving of the reads; and readFiles returns only when every
\* callback has settled
C28_EveryPathSettlesOnce ==
  /\ [](ReadFilesDone /\ fsChanges = 0 =>
          /\ Succeeded \cup Skipped \cup Failed = DOMAIN tasks
          /\ Len(result.records) = Cardinality(Succeeded)
          /\ Len(errors) = Cardinality(Failed)
          /\ Len(result.records) + Cardinality(Skipped) + Len(errors) = Len(tasks)
          /\ \A i \in Failed : \E k \in DOMAIN errors :
               errors[k] = [path |-> tasks[i].path, error |-> tasks[i].out.code]
          /\ \A i \in DOMAIN tasks : tasks[i].out = AloneOut(tasks[i].path, call.config))
  /\ [][(call.op = "readFiles" /\ call.pc = "run" /\ call'.pc = "done")
          => \A i \in DOMAIN tasks : tasks[i].pc = "done"]_vars

\* C28 witness: readFiles has returned over an unchanged file system, a path
\* that failed at the file system having settled after a later path that
\* gave a record
C28_Witness ==
  /\ ReadFilesDone
  /\ fsChanges = 0
  /\ \E i, j \in DOMAIN tasks :
       /\ i < j
       /\ tasks[i].out.tag = "FileReadError"
       /\ tasks[j].out.tag = "record"
       /\ tasks[i].seq > tasks[j].seq
       /\ tasks[j].seq > 0
  /\ Len(result.records) = 1
  /\ Len(errors) = 1

\* C29: with allowSymlinks false, readFile returns no record whose content
\* was read through a symbolic link, also when the path is replaced by a link
\* between validatePath's lstat and the stat or the read
C29_NoContentThroughSymlink ==
  (ReadFileDone /\ ~MergedConfig(call.config).allowSymlinks /\ result.tag = "returned")
    => \A k \in DOMAIN result.records : result.records[k].via # "symlink"

\* handleAnalyzeContent has thrown because readFile did
AnalyzeContentFileFailure ==
  /\ call.op = "analyzeContent"
  /\ call.pc = "done"
  /\ tasks[1].out.tag \in {"SecurityError", "FileReadError"}

\* C30: when handleAnalyzeContent fails because the file could not be read or
\* was rejected by the security policy, the MCP error it throws is never a
\* model, quota or timeout error
C30_FileFailureNeverApiClass ==
  AnalyzeContentFileFailure
    => result.error.code \notin {"MODEL_NOT_SUPPORTED", "RATE_LIMIT", "TIMEOUT"}

====
